---- MODULE Spec2Model ----
(***************************************************************************)
(* A state-machine model of the AdvancedAIChatbot backend: the relational  *)
(* store (users, conversations, messages, user_topics), the authentication *)
(* endpoints, the topic store, the proactive engine and the chat pipeline. *)
(* Time is counted in minutes.  Every table is a sequence of rows whose    *)
(* primary key is the row's position (autoincrement ids, no row is ever    *)
(* deleted by the code).                                                   *)
(***************************************************************************)
EXTENDS Integers, Sequences, FiniteSets, TLC

\* The column names of the tables and the keys of the records the model uses.
Columns ==
    [ELEVENLABS_API_KEY |-> "ELEVENLABS_API_KEY", STT_PROVIDER |-> "STT_PROVIDER",
     TTS_PROVIDER |-> "TTS_PROVIDER", access_token |-> "access_token",
     ai_model |-> "ai_model", answer |-> "answer", args |-> "args", at |-> "at",
     audio_file |-> "audio_file", autocommit |-> "autocommit", autoflush |-> "autoflush",
     body |-> "body", calls |-> "calls", claims |-> "claims", class |-> "class",
     client_before |-> "client_before", content |-> "content",
     content_type |-> "content_type", context |-> "context",
     context_built |-> "context_built", context_order |-> "context_order",
     context_topics |-> "context_topics", conv_order |-> "conv_order",
     conversation |-> "conversation", conversation_exists |-> "conversation_exists",
     conversation_id |-> "conversation_id", conversations |-> "conversations",
     conversations_before |-> "conversations_before", created_at |-> "created_at",
     current_message |-> "current_message", datetime |-> "datetime", detail |-> "detail",
     detected_topics |-> "detected_topics", digest_of |-> "digest_of",
     disabled |-> "disabled", email |-> "email", entities |-> "entities", env |-> "env",
     error |-> "error", exp |-> "exp", file |-> "file", first |-> "first",
     frequency |-> "frequency", fresh |-> "fresh", full_name |-> "full_name",
     function |-> "function", hashed_password |-> "hashed_password",
     history |-> "history", history_read |-> "history_read", id |-> "id",
     is_active |-> "is_active", is_user |-> "is_user", iso8601 |-> "iso8601",
     items |-> "items", kind |-> "kind", known |-> "known", known_user |-> "known_user",
     label |-> "label", last_mentioned |-> "last_mentioned", limit |-> "limit",
     loaded |-> "loaded", max_history_items |-> "max_history_items",
     media_type |-> "media_type", message |-> "message",
     message_metadata |-> "message_metadata", messages |-> "messages",
     messages_before |-> "messages_before", metadata |-> "metadata",
     model_calls |-> "model_calls", msg_order |-> "msg_order", ok |-> "ok", op |-> "op",
     order |-> "order", password |-> "password", pc |-> "pc",
     preferences |-> "preferences", prev |-> "prev",
     proactive_recommendation |-> "proactive_recommendation", provider |-> "provider",
     raised |-> "raised", raised_in |-> "raised_in", raises |-> "raises",
     recommendations |-> "recommendations", request |-> "request", resp |-> "resp",
     response |-> "response", response_time |-> "response_time", result |-> "result",
     role |-> "role", run |-> "run", scheme |-> "scheme", score |-> "score",
     seen |-> "seen", sentiment |-> "sentiment", service |-> "service",
     signed_with |-> "signed_with", speech_to_text |-> "speech_to_text",
     stale |-> "stale", stamp |-> "stamp", stamp_kept |-> "stamp_kept",
     status |-> "status", status_code |-> "status_code", steps |-> "steps", str |-> "str",
     sub |-> "sub", synthesize |-> "synthesize", text |-> "text",
     text_to_speech |-> "text_to_speech", timestamp |-> "timestamp", title |-> "title",
     token |-> "token", token_type |-> "token_type", top_topics |-> "top_topics",
     topic |-> "topic", topics |-> "topics", topics_updated |-> "topics_updated",
     transcribe |-> "transcribe", type |-> "type", uid |-> "uid",
     updated_at |-> "updated_at", url_voice |-> "url_voice", user |-> "user",
     user_id |-> "user_id", user_topics |-> "user_topics", username |-> "username",
     users |-> "users", users_before |-> "users_before", value |-> "value",
     voice_id |-> "voice_id", weight |-> "weight",
     whisper_installed |-> "whisper_installed"]

VARIABLES users, conversations, messages, user_topics, now, client, sent_at, sessions, last

vars == <<users, conversations, messages, user_topics, now, client, sent_at, sessions, last>>

\* sessions: the database sessions of the requests in flight, in the order
\* the requests arrived; none where each request runs to its end in one step.
NoSessions == <<>>

(***************************************************************************)
(* Python dicts (JSON columns, JWT payloads, result dicts) are functions   *)
(* from string keys to values.                                             *)
(***************************************************************************)
EmptyDict == [k \in {} |-> TRUE]

HasKey(d, k) == k \in DOMAIN d

DictSet(d, k, v) == [x \in (DOMAIN d) \cup {k} |-> IF x = k THEN v ELSE d[x]]

DictMerge(d, e) == [x \in (DOMAIN d) \cup (DOMAIN e) |-> IF x \in DOMAIN e THEN e[x] ELSE d[x]]

SetMin(S) == CHOOSE x \in S : \A y \in S : x <= y

\* Query(...).first() on a column the schema declares unique: the id of the
\* matching row, 0 (no row has id 0) when there is none.
FirstOrNone(S) == IF S = {} THEN 0 ELSE SetMin(S)

(***************************************************************************)
(* Authentication: src/app/core/auth.py and src/app/api/auth.py            *)
(***************************************************************************)
ACCESS_TOKEN_EXPIRE_MINUTES == 30

SECRET_KEY == "JWT_SECRET_KEY"

HTTP_200_OK == 200

HTTP_201_CREATED == 201

HTTP_400_BAD_REQUEST == 400

HTTP_401_UNAUTHORIZED == 401

HTTP_403_FORBIDDEN == 403

HTTP_500_INTERNAL_SERVER_ERROR == 500

\* pwd_context.hash: the stored value is a bcrypt digest of the password, never
\* the password itself (the salt is left out: verify does not depend on it).
get_password_hash(password) == [digest_of |-> password, scheme |-> "bcrypt"]

verify_password(plain_password, hashed_password) == hashed_password = get_password_hash(plain_password)

\* jwt.encode: the claims and the key that signed them.
create_access_token(data, expires_delta, t) == [claims |-> DictSet(data, "exp", t + expires_delta), signed_with |-> SECRET_KEY]

\* jwt.decode(token, SECRET_KEY): JWTError for a token that is not signed with
\* the key (a malformed token included) or whose exp lies in the past.
jwt_decode_ok(tok, t) ==
    /\ tok.signed_with = SECRET_KEY
    /\ (HasKey(tok.claims, "exp") => ~(tok.claims["exp"] < t))

\* str(user.id) in the token, and the database's comparison of the integer
\* column users.id with that string.
StrOfId(i) == ToString(i)

get_user_by_username(us, username) == FirstOrNone({i \in DOMAIN us : us[i].username = username})

get_user_by_email_NoCheck(us, email) == 0

get_user_by_email(us, email) == FirstOrNone({i \in DOMAIN us : us[i].email = email})

UserResponse(u) == [email |-> u.email, full_name |-> u.full_name, id |-> u.id, username |-> u.username]

HTTPException(code, text) == [detail |-> text, status |-> code]

\* The unique constraints of users.username and users.email (models.py) make
\* the INSERT fail when the handler's own checks let a duplicate through.
UniqueViolation(us, username, email) == \E i \in DOMAIN us : us[i].username = username \/ us[i].email = email

NewUser(us, user) ==
    [email |-> user.email, full_name |-> user.full_name, hashed_password |-> get_password_hash(user.password),
     id |-> Len(us) + 1, is_active |-> TRUE,
     preferences |-> EmptyDict, username |-> user.username]

\* register_user followed by create_user: <<response, users table afterwards>>.
register_user_result(us, user) ==
    IF get_user_by_username(us, user.username) # 0
    THEN <<HTTPException(HTTP_400_BAD_REQUEST, "Username already registered"), us>>
    ELSE IF get_user_by_email(us, user.email) # 0
    THEN <<HTTPException(HTTP_400_BAD_REQUEST, "Email already registered"), us>>
    ELSE IF UniqueViolation(us, user.username, user.email)
    THEN <<HTTPException(HTTP_500_INTERNAL_SERVER_ERROR, "IntegrityError"), us>>
    ELSE <<[body |-> UserResponse(NewUser(us, user)), status |-> HTTP_201_CREATED], Append(us, NewUser(us, user))>>

token_data_SubIsUsername(u) == [sub |-> u.username]

\* data={"sub": str(user.id)}
token_data(u) == [sub |-> StrOfId(u.id)]

Token(u, t) ==
    [body |-> [access_token |-> create_access_token(token_data(u), ACCESS_TOKEN_EXPIRE_MINUTES, t),
               token_type |-> "bearer", user_id |-> u.id, username |-> u.username],
     status |-> HTTP_200_OK]

login_NoPasswordCheck(us, username, password, t) ==
    LET uid == get_user_by_username(us, username) IN
    IF uid = 0
    THEN HTTPException(HTTP_401_UNAUTHORIZED, "Incorrect username or password")
    ELSE IF ~us[uid].is_active
    THEN HTTPException(HTTP_403_FORBIDDEN, "Inactive user")
    ELSE Token(us[uid], t)

login_result(us, username, password, t) ==
    LET uid == get_user_by_username(us, username) IN
    IF uid = 0 \/ ~verify_password(password, us[uid].hashed_password)
    THEN HTTPException(HTTP_401_UNAUTHORIZED, "Incorrect username or password")
    ELSE IF ~us[uid].is_active
    THEN HTTPException(HTTP_403_FORBIDDEN, "Inactive user")
    ELSE Token(us[uid], t)

credentials_exception == HTTPException(HTTP_401_UNAUTHORIZED, "Could not validate credentials")

\* get_current_user: <<ok, user id or 0, error response>>.
get_current_user(us, tok, t) ==
    IF ~jwt_decode_ok(tok, t) \/ ~HasKey(tok.claims, "sub")
    THEN [error |-> credentials_exception, ok |-> FALSE, uid |-> 0]
    ELSE LET uid == FirstOrNone({i \in DOMAIN us : StrOfId(us[i].id) = tok.claims["sub"]}) IN
         IF uid = 0 THEN [error |-> credentials_exception, ok |-> FALSE, uid |-> 0]
         ELSE [error |-> credentials_exception, ok |-> TRUE, uid |-> uid]

get_current_active_user_NoActiveCheck(us, tok, t) == get_current_user(us, tok, t)

get_current_active_user(us, tok, t) ==
    LET cur == get_current_user(us, tok, t) IN
    IF ~cur.ok THEN cur
    ELSE IF ~us[cur.uid].is_active
    THEN [error |-> HTTPException(HTTP_403_FORBIDDEN, "Inactive user"), ok |-> FALSE, uid |-> 0]
    ELSE cur

read_users_me_result(us, tok, t) ==
    LET cur == get_current_active_user(us, tok, t) IN
    IF ~cur.ok THEN cur.error
    ELSE [body |-> UserResponse(us[cur.uid]), status |-> HTTP_200_OK]

(***************************************************************************)
(* Inputs of the authentication endpoints.                                 *)
(***************************************************************************)
Usernames == {"alice", "bob"}

Emails == {"alice@x.com", "bob@x.com"}

Passwords == {"pw123", "wrong_password"}

\* Instants of a run of the authentication endpoints: a token issued at 0 or 10
\* is still valid at 30 and has expired at 45.
AuthTimes == {10, 30, 31, 45}

FarFuture == 45 + ACCESS_TOKEN_EXPIRE_MINUTES

\* What the client keeps of its last successful login (the Token response).
NoLogin == [access_token |-> [claims |-> EmptyDict, signed_with |-> "nobody"], token_type |-> "none", user_id |-> 0, username |-> "nobody"]

\* Tokens a client can present besides the one its last login issued: a string
\* that is no JWT, a token signed with another key, tokens signed with the key
\* that carry no subject or the id of a user that does not exist, and the token
\* carol was issued before her account was deactivated.
OtherTokens ==
    { [claims |-> EmptyDict, signed_with |-> "invalid_token"],
      [claims |-> [exp |-> FarFuture, sub |-> "1"], signed_with |-> "another key"],
      [claims |-> [exp |-> FarFuture], signed_with |-> SECRET_KEY],
      [claims |-> [exp |-> FarFuture, sub |-> "99"], signed_with |-> SECRET_KEY],
      [claims |-> [exp |-> FarFuture, sub |-> "1"], signed_with |-> SECRET_KEY] }

\* The observer's record of when should_send_recommendation last returned true
\* for each user id (-1: never); no part of the program's state.
NeverSent == [u \in {} |-> -1]

\* An account an administrator has deactivated (users.is_active = false).
SeedUsers ==
    << [email |-> "carol@x.com", full_name |-> "None", hashed_password |-> get_password_hash("pw123"),
        id |-> 1, is_active |-> FALSE,
        preferences |-> EmptyDict, username |-> "carol"] >>

\* The clock moves to a later instant of the run's time points.
Tick(points) ==
    /\ \E t \in points : t > now /\ now' = t
    /\ last' = [op |-> "tick"]
    /\ UNCHANGED <<users, conversations, messages, user_topics, client, sent_at, sessions>>

RegisterUser(user) ==
    LET r == register_user_result(users, user) IN
    /\ users' = r[2]
    /\ last' = [op |-> "register", resp |-> r[1], user |-> user, users_before |-> users]
    /\ UNCHANGED <<conversations, messages, user_topics, now, client, sent_at, sessions>>

Login(username, password) ==
    LET r == login_result(users, username, password, now) IN
    /\ client' = IF r.status = HTTP_200_OK THEN r.body ELSE client
    /\ last' = [client_before |-> client, op |-> "login", password |-> password, resp |-> r, username |-> username]
    /\ UNCHANGED <<users, conversations, messages, user_topics, now, sent_at, sessions>>

ReadUsersMe(tok) ==
    /\ last' = [op |-> "me", resp |-> read_users_me_result(users, tok, now), token |-> tok]
    /\ UNCHANGED <<users, conversations, messages, user_topics, now, client, sent_at, sessions>>

InitAuth ==
    /\ users = SeedUsers
    /\ conversations = <<>>
    /\ messages = <<>>
    /\ user_topics = <<>>
    /\ now = 0
    /\ client = NoLogin
    /\ sent_at = NeverSent
    /\ sessions = NoSessions
    /\ last = [op |-> "init"]

NextAuth ==
    \/ Tick(AuthTimes)
    \/ \E n \in Usernames \cup {"carol"}, e \in Emails \cup {"carol@x.com"} :
          RegisterUser([email |-> e, full_name |-> "None", password |-> "pw123", username |-> n])
    \/ \E n \in Usernames \cup {"carol", "nobody"}, p \in Passwords : Login(n, p)
    \/ \E tok \in OtherTokens \cup {client.access_token} : ReadUsersMe(tok)

SpecAuth == InitAuth /\ [][NextAuth]_vars

(***************************************************************************)
(* Claims about the authentication endpoints (checked under SpecAuth).     *)
(***************************************************************************)
AlreadyRegisteredDetails == {"Username already registered", "Email already registered"}

UsernameTaken(us, username) == \E i \in DOMAIN us : us[i].username = username

EmailTaken(us, email) == \E i \in DOMAIN us : us[i].email = email

\* C7: a register request whose username or email an existing user already has
\* is answered 400 with a detail mentioning "already registered" and leaves the
\* users table as it was; and no two users ever share a username or an email.
C7_DuplicateRegistrationRejected ==
    /\ (last.op = "register" /\ (UsernameTaken(last.users_before, last.user.username) \/ EmailTaken(last.users_before, last.user.email)))
          => /\ last.resp.status = HTTP_400_BAD_REQUEST
             /\ last.resp.detail \in AlreadyRegisteredDetails
             /\ users = last.users_before
    /\ \A i, j \in DOMAIN users : i # j => users[i].username # users[j].username /\ users[i].email # users[j].email

\* C7 witness: a registration with a fresh username and a taken email was rejected.
C7_Witness ==
    /\ last.op = "register"
    /\ ~UsernameTaken(last.users_before, last.user.username)
    /\ EmailTaken(last.users_before, last.user.email)
    /\ last.resp.status = HTTP_400_BAD_REQUEST
    /\ Len(users) >= 2

\* C8: a successful login is one with a registered active user's correct
\* credentials and its token's subject is that user's id; and a /me call that
\* presents the token of the client's last login, while the token has not
\* expired, returns 200 with the id, username and email of the user who logged in.
C8_LoginMeRoundTrip ==
    /\ (last.op = "login" /\ last.resp.status = HTTP_200_OK)
          => \E i \in DOMAIN users :
                /\ users[i].username = last.username
                /\ users[i].hashed_password = get_password_hash(last.password)
                /\ users[i].is_active
                /\ last.resp.body.access_token.claims["sub"] = ToString(users[i].id)
                /\ last.resp.body.access_token.signed_with = SECRET_KEY
                /\ last.resp.body.username = users[i].username
                /\ client = last.resp.body
    /\ (last.op = "login" /\ last.resp.status # HTTP_200_OK) => ~(\E i \in DOMAIN users :
                /\ users[i].username = last.username
                /\ users[i].hashed_password = get_password_hash(last.password)
                /\ users[i].is_active)
    /\ (last.op = "me" /\ client # NoLogin /\ last.token = client.access_token /\ now <= client.access_token.claims["exp"])
          => /\ last.resp.status = HTTP_200_OK
             /\ last.resp.body.id = client.user_id
             /\ last.resp.body.username = client.username
             /\ last.resp.body.email = users[client.user_id].email
             /\ users[client.user_id].username = client.username

\* C8 witness: /me answered 200 for the token a login issued some time before.
C8_Witness ==
    /\ last.op = "me"
    /\ client # NoLogin
    /\ last.token = client.access_token
    /\ now > client.access_token.claims["exp"] - ACCESS_TOKEN_EXPIRE_MINUTES
    /\ last.resp.status = HTTP_200_OK
    /\ last.resp.body.username = "bob"

KnownUser(username) == \E i \in DOMAIN users : users[i].username = username

CorrectPassword(username, password) == \E i \in DOMAIN users : users[i].username = username /\ users[i].hashed_password = get_password_hash(password)

\* C9: login with an unknown username or a wrong password is answered by the
\* same 401 "Incorrect username or password" response, which carries no token;
\* login of an inactive user with the correct password is answered 403.
C9_LoginRejections ==
    last.op = "login" =>
       /\ (~KnownUser(last.username) \/ ~CorrectPassword(last.username, last.password))
             => /\ last.resp = [detail |-> "Incorrect username or password", status |-> HTTP_401_UNAUTHORIZED]
                /\ client = last.client_before
       /\ (CorrectPassword(last.username, last.password) /\ \E i \in DOMAIN users : users[i].username = last.username /\ ~users[i].is_active)
             => /\ last.resp.status = HTTP_403_FORBIDDEN
                /\ client = last.client_before

\* C9 witness: a registered active user's login with a wrong password was refused.
C9_Witness ==
    /\ last.op = "login"
    /\ \E i \in DOMAIN users : users[i].username = last.username /\ users[i].is_active
    /\ ~CorrectPassword(last.username, last.password)
    /\ last.resp.status = HTTP_401_UNAUTHORIZED

TokenVerifies(tok) == tok.signed_with = SECRET_KEY /\ (HasKey(tok.claims, "exp") => now <= tok.claims["exp"])

NamedUsers(tok) == IF HasKey(tok.claims, "sub") THEN {i \in DOMAIN users : ToString(i) = tok.claims["sub"]} ELSE {}

\* C10: /me returns a profile only for a token that verifies and names an
\* existing active user; a token that does not verify (bad signature, expired),
\* has no subject or names no existing user gets 401 "Could not validate
\* credentials"; a verifying token of an inactive user gets 403.
C10_MeRejections ==
    last.op = "me" =>
       /\ last.resp.status = HTTP_200_OK
             => /\ TokenVerifies(last.token)
                /\ \E i \in NamedUsers(last.token) : users[i].is_active /\ last.resp.body.username = users[i].username
       /\ (~TokenVerifies(last.token) \/ NamedUsers(last.token) = {})
             => last.resp = [detail |-> "Could not validate credentials", status |-> HTTP_401_UNAUTHORIZED]
       /\ (TokenVerifies(last.token) /\ \E i \in NamedUsers(last.token) : ~users[i].is_active)
             => last.resp.status = HTTP_403_FORBIDDEN

\* C10 witness: /me with the expired token of an earlier login was refused 401.
C10_Witness ==
    /\ last.op = "me"
    /\ client # NoLogin
    /\ last.token = client.access_token
    /\ now > client.access_token.claims["exp"]
    /\ last.resp.status = HTTP_401_UNAUTHORIZED

(***************************************************************************)
(* Topic store: src/app/services/user_profile.py, src/app/db/database.py   *)
(***************************************************************************)
MaxWeight == 2

MaxTopicRows == 2

MaxTopicTime == 1

\* sessionmaker(autocommit=False, autoflush=False, bind=engine)
SessionLocal == [autocommit |-> FALSE, autoflush |-> FALSE]

\* Users as create_user leaves them (active, no preferences).
SeedActiveUsers ==
    << [email |-> "alice@x.com", full_name |-> "None", hashed_password |-> get_password_hash("pw123"),
        id |-> 1, is_active |-> TRUE,
        preferences |-> EmptyDict, username |-> "alice"],
       [email |-> "bob@x.com", full_name |-> "None", hashed_password |-> get_password_hash("pw123"),
        id |-> 2, is_active |-> TRUE,
        preferences |-> EmptyDict, username |-> "bob"] >>

\* Rows of user_topics that a query filtered on (user_id, topic) matches.  The
\* table declares no unique constraint on the pair (models.py).
TopicMatches(rows, user_id, topic_name) == {i \in DOMAIN rows : rows[i].user_id = user_id /\ rows[i].topic = topic_name}

SeqRange(q) == {q[i] : i \in DOMAIN q}

\* The rows .first() may return for each name of the call: a query without
\* ORDER BY returns any one of the matching rows, 0 (None) when there is none.
FirstChoices(rows, user_id, detected_topics) ==
    {f \in [SeqRange(detected_topics) -> 0..Len(rows)] :
        \A n \in SeqRange(detected_topics) :
            IF TopicMatches(rows, user_id, n) = {} THEN f[n] = 0 ELSE f[n] \in TopicMatches(rows, user_id, n)}

\* session.flush(): the modified loaded rows are written and the pending new
\* rows are inserted, in the order they were added.
Flush(loaded, pending) == loaded \o pending

\* The for loop of update_user_topics.  rows: the table as the database holds
\* it (what a query sees); loaded: the same rows as the session's objects, with
\* the changes made so far that are not flushed; pending: objects given to
\* db.add and not yet inserted.  With autoflush off a query does not flush, so
\* it sees neither.
RECURSIVE update_user_topics_loop(_, _, _, _, _, _, _)
update_user_topics_loop(rows, loaded, pending, user_id, detected_topics, t, first) ==
    IF detected_topics = <<>>
    THEN Flush(loaded, pending)
    ELSE LET topic_name == Head(detected_topics)
             seen == IF SessionLocal.autoflush THEN Flush(loaded, pending) ELSE rows
             seen_loaded == IF SessionLocal.autoflush THEN Flush(loaded, pending) ELSE loaded
             seen_pending == IF SessionLocal.autoflush THEN <<>> ELSE pending
             topic == IF first[topic_name] # 0 THEN first[topic_name]
                      ELSE FirstOrNone(TopicMatches(seen, user_id, topic_name))
         IN IF topic # 0
            THEN update_user_topics_loop(seen,
                     [seen_loaded EXCEPT ![topic].weight = @ + 1, ![topic].last_mentioned = t],
                     seen_pending, user_id, Tail(detected_topics), t, first)
            ELSE update_user_topics_loop(seen, seen_loaded,
                     Append(seen_pending,
                            [id |-> Len(seen_loaded) + Len(seen_pending) + 1, last_mentioned |-> t,
                             topic |-> topic_name, user_id |-> user_id, weight |-> 1]),
                     user_id, Tail(detected_topics), t, first)

\* update_user_topics: [raised, error, user_topics].  The commit fails on the
\* foreign key user_topics.user_id -> users.id when a row is inserted for a
\* user that does not exist.
update_user_topics(us, rows, user_id, detected_topics, t, first) ==
    LET after == update_user_topics_loop(rows, rows, <<>>, user_id, detected_topics, t, first) IN
    IF Len(after) > Len(rows) /\ user_id \notin DOMAIN us
    THEN [error |-> "IntegrityError", raised |-> TRUE, user_topics |-> rows]
    ELSE [error |-> "", raised |-> FALSE, user_topics |-> after]

\* get_user_topics: the user's rows by weight descending, at most limit of
\* them; rows of equal weight come in any order.
TopicOrders(rows, user_id) ==
    LET ids == {i \in DOMAIN rows : rows[i].user_id = user_id}
        n == Cardinality(ids)
    IN {o \in [1..n -> ids] :
          /\ \A i, j \in 1..n : i # j => o[i] # o[j]
          /\ \A i, j \in 1..n : i < j => rows[o[i]].weight >= rows[o[j]].weight}

Min2(a, b) == IF a <= b THEN a ELSE b

get_user_topics(rows, order, limit) ==
    [i \in 1..Min2(limit, Len(order)) |->
        [last_mentioned |-> rows[order[i]].last_mentioned, topic |-> rows[order[i]].topic, weight |-> rows[order[i]].weight]]

WithinTopicBounds(rows) ==
    /\ Len(rows) <= MaxTopicRows
    /\ \A i \in DOMAIN rows : rows[i].weight <= MaxWeight

TopicNames == {"technology", "finance"}

TopicLists == {<<a>> : a \in TopicNames} \cup {<<a, b>> : a \in TopicNames, b \in TopicNames}

UserIds == {1, 2}

UpdateUserTopics(user_id, detected_topics) ==
    \E first \in FirstChoices(user_topics, user_id, detected_topics) :
        LET r == update_user_topics(users, user_topics, user_id, detected_topics, now, first) IN
        /\ WithinTopicBounds(r.user_topics)
        /\ user_topics' = r.user_topics
        /\ last' = [detected_topics |-> detected_topics, fresh |-> (\A i \in DOMAIN user_topics : user_topics[i].user_id # user_id), op |-> "update_user_topics",
                    raised |-> r.raised, user_id |-> user_id]
        /\ UNCHANGED <<users, conversations, messages, now, client, sent_at, sessions>>

GetUserTopics(user_id) ==
    \E order \in TopicOrders(user_topics, user_id) :
        /\ last' = [op |-> "get_user_topics", result |-> get_user_topics(user_topics, order, 20), user_id |-> user_id]
        /\ UNCHANGED <<users, conversations, messages, user_topics, now, client, sent_at, sessions>>

InitTopics ==
    /\ users = SeedActiveUsers
    /\ conversations = <<>>
    /\ messages = <<>>
    /\ user_topics = <<>>
    /\ now = 0
    /\ client = NoLogin
    /\ sent_at = NeverSent
    /\ sessions = NoSessions
    /\ last = [op |-> "init"]

NextTopics ==
    \/ Tick(1..MaxTopicTime)
    \/ \E u \in UserIds, names \in TopicLists : UpdateUserTopics(u, names)
    \/ \E u \in UserIds : GetUserTopics(u)

SpecTopics == InitTopics /\ [][NextTopics]_vars

(***************************************************************************)
(* Claims about the topic store (checked under SpecTopics).                *)
(***************************************************************************)
\* C1: update_user_topics(u, ["x", "x"]) applied to a user that has no topic
\* rows leaves exactly one row "x" for u, and its weight is 2.
C1_DuplicateInCallOneRowWeightTwo ==
    (/\ last.op = "update_user_topics"
     /\ Len(last.detected_topics) = 2
     /\ last.detected_topics[1] = last.detected_topics[2]
     /\ last.fresh)
    => /\ Cardinality(TopicMatches(user_topics, last.user_id, last.detected_topics[1])) = 1
       /\ \A i \in TopicMatches(user_topics, last.user_id, last.detected_topics[1]) : user_topics[i].weight = 2

(***************************************************************************)
(* The proactive engine: should_send_recommendation.                       *)
(***************************************************************************)
\* datetime.isoformat() and datetime.fromisoformat(): a time becomes a string
\* in ISO 8601 notation and back; the string is not the time.
isoformat(t) == [iso8601 |-> t]

fromisoformat(s) == s.iso8601

\* dict.get(key, default)
Get(d, key, default) == IF HasKey(d, key) THEN d[key] ELSE default

\* The frequency rules: the number of hours that must have passed since the
\* last recommendation; a frequency that no rule names has no minimum.
GapHours(frequency) ==
    CASE frequency = "low" -> 24
      [] frequency = "medium" -> 6
      [] frequency = "high" -> 1
      [] OTHER -> 0

\* hours_since = (now - last_time).total_seconds() / 3600, a float; time is
\* counted in minutes, so hours_since < h is minutes_since < 60 * h.
HoursSinceLessThan(t, last_time, h) == (t - last_time) < 60 * h

\* What commit() leaves in users.preferences.  The column is a plain JSON
\* column: the unit of work writes it only when the value the attribute holds
\* at flush differs from the value it was loaded with.  loaded is the loaded
\* dict as it is at flush (a dict changed in place has changed there too),
\* held is what the attribute holds then.
preferences_flush(stored, loaded, held) == IF held = loaded THEN stored ELSE held

\* A variant without the disable_proactive check.
should_send_recommendation_IgnoreDisabled(us, user_id, t) ==
    LET user == FirstOrNone({i \in DOMAIN us : us[i].id = user_id}) IN
    IF user = 0 THEN [result |-> FALSE, users |-> us]
    ELSE
    LET preferences == us[user].preferences
        frequency == Get(preferences, "recommendation_frequency", "medium")
        too_soon ==
            /\ HasKey(preferences, "last_recommendation_time")
            /\ HoursSinceLessThan(t, fromisoformat(preferences["last_recommendation_time"]),
                                  GapHours(frequency))
        in_place == DictSet(preferences, "last_recommendation_time", isoformat(t))
    IN  IF too_soon THEN [result |-> FALSE, users |-> us]
        ELSE [result |-> TRUE,
              users |-> [us EXCEPT ![user].preferences =
                            preferences_flush(preferences, in_place, in_place)]]

\* should_send_recommendation: [result, users].  The method changes the
\* loaded dict in place and assigns the same dict back to the attribute.
should_send_recommendation(us, user_id, t) ==
    LET user == FirstOrNone({i \in DOMAIN us : us[i].id = user_id}) IN
    IF user = 0 THEN [result |-> FALSE, users |-> us]
    ELSE
    LET preferences == us[user].preferences
        frequency == Get(preferences, "recommendation_frequency", "medium")
        too_soon ==
            /\ HasKey(preferences, "last_recommendation_time")
            /\ HoursSinceLessThan(t, fromisoformat(preferences["last_recommendation_time"]),
                                  GapHours(frequency))
        in_place == DictSet(preferences, "last_recommendation_time", isoformat(t))
    IN  IF Get(preferences, "disable_proactive", FALSE) THEN [result |-> FALSE, users |-> us]
        ELSE IF too_soon THEN [result |-> FALSE, users |-> us]
        ELSE [result |-> TRUE,
              users |-> [us EXCEPT ![user].preferences =
                            preferences_flush(preferences, in_place, in_place)]]

\* update_user_preferences: a new dict {**user.preferences, **preferences} is
\* assigned; an unknown user is ignored.
update_user_preferences(us, user_id, preferences) ==
    LET user == FirstOrNone({i \in DOMAIN us : us[i].id = user_id}) IN
    IF user = 0 THEN us
    ELSE LET updated_prefs == DictMerge(us[user].preferences, preferences) IN
         [us EXCEPT ![user].preferences =
             preferences_flush(us[user].preferences, us[user].preferences, updated_prefs)]

\* The clock readings of the proactive model, in minutes: half an hour, and
\* the three gaps.
ProactiveTimes == {30, 60 * GapHours("high"), 60 * GapHours("medium"), 60 * GapHours("low")}

Frequencies == {"low", "medium", "high"}

PreferencePatches(t) ==
    {DictSet(EmptyDict, "recommendation_frequency", f) : f \in Frequencies}
      \cup {DictSet(EmptyDict, "disable_proactive", TRUE),
            DictSet(EmptyDict, "last_recommendation_time", isoformat(t))}

\* The time should_send_recommendation last returned True for the user, -1
\* when it never did.
LastSent(user_id) == IF user_id \in DOMAIN sent_at THEN sent_at[user_id] ELSE -1

ShouldSendRecommendation(user_id) ==
    LET r == should_send_recommendation(users, user_id, now)
        known == user_id \in DOMAIN users
        preferences == IF known THEN users[user_id].preferences ELSE EmptyDict
    IN
    /\ users' = r.users
    /\ sent_at' = IF r.result THEN (user_id :> now) @@ sent_at ELSE sent_at
    /\ last' = [disabled |-> Get(preferences, "disable_proactive", FALSE),
                frequency |-> Get(preferences, "recommendation_frequency", "medium"),
                known |-> known,
                op |-> "should_send_recommendation",
                prev |-> LastSent(user_id),
                result |-> r.result,
                stamp_kept |-> (HasKey(preferences, "last_recommendation_time")
                                  => fromisoformat(preferences["last_recommendation_time"]) = LastSent(user_id)),
                user_id |-> user_id]
    /\ UNCHANGED <<conversations, messages, user_topics, now, client, sessions>>

UpdateUserPreferences(user_id, preferences) ==
    /\ users' = update_user_preferences(users, user_id, preferences)
    /\ last' = [op |-> "update_user_preferences", user_id |-> user_id]
    /\ UNCHANGED <<conversations, messages, user_topics, now, client, sent_at, sessions>>

InitProactive ==
    /\ users = SeedActiveUsers
    /\ conversations = <<>>
    /\ messages = <<>>
    /\ user_topics = <<>>
    /\ now = 0
    /\ client = NoLogin
    /\ sent_at = NeverSent
    /\ sessions = NoSessions
    /\ last = [op |-> "init"]

NextProactive ==
    \/ Tick(ProactiveTimes)
    \/ \E u \in UserIds \cup {3} : ShouldSendRecommendation(u)
    \/ \E p \in PreferencePatches(now) : UpdateUserPreferences(1, p)

SpecProactive == InitProactive /\ [][NextProactive]_vars

(***************************************************************************)
(* Claims about should_send_recommendation (checked under SpecProactive).  *)
(***************************************************************************)
\* C2: for a user whose recommendation_frequency is low, medium (or absent) or
\* high, once should_send_recommendation has returned true at time t, a later
\* call returns false while less than the gap (24h, 6h, 1h) has passed since
\* t, and returns true once the gap has passed.  The call considered is one
\* for a user with recommendations enabled whose stored stamp, if there is
\* one, is the one the last true return left.
C2_GapEnforcedSinceLastTrue ==
    (/\ last.op = "should_send_recommendation"
     /\ last.known
     /\ last.prev >= 0
     /\ last.stamp_kept
     /\ ~last.disabled
     /\ last.frequency \in Frequencies)
    => (last.result <=> now >= last.prev + 60 * GapHours(last.frequency))

(***************************************************************************)
(* Conversations, messages and the proactive engine's recommendations.     *)
(***************************************************************************)
MaxConversations == 1
MaxMessages == 2

\* The constructor of Message takes metadata=...: the mapped column is
\* message_metadata, which keeps its default {}; "metadata" on a row read
\* back is the declarative base's MetaData object.
Base == [metadata |-> "MetaData()"]

\* create_conversation: [raised, conversation, conversations]; the foreign key
\* conversations.user_id -> users.id rejects an unknown user at commit.
create_conversation(us, convs, user_id, t) ==
    LET conversation == [created_at |-> t, id |-> Len(convs) + 1,
                         title |-> <<"Conversation ", t>>,
                         updated_at |-> t, user_id |-> user_id]
    IN IF user_id \notin DOMAIN us
       THEN [conversation |-> [id |-> 0], conversations |-> convs, raised |-> TRUE]
       ELSE [conversation |-> conversation, conversations |-> Append(convs, conversation), raised |-> FALSE]

\* The row add_user_message and add_bot_message insert.
NewMessage(msgs, conversation_id, content, is_user, metadata, t) ==
    [content |-> content, conversation_id |-> conversation_id, created_at |-> t,
     id |-> Len(msgs) + 1, is_user |-> is_user, message_metadata |-> EmptyDict]

\* add_user_message: [raised, messages]; the foreign key
\* messages.conversation_id -> conversations.id rejects an unknown conversation.
add_user_message(convs, msgs, user_id, conversation_id, content, metadata, t) ==
    IF conversation_id \notin DOMAIN convs
    THEN [messages |-> msgs, raised |-> TRUE]
    ELSE [messages |-> Append(msgs, NewMessage(msgs, conversation_id, content, TRUE, metadata, t)),
          raised |-> FALSE]

add_bot_message(convs, msgs, conversation_id, content, metadata, t) ==
    IF conversation_id \notin DOMAIN convs
    THEN [messages |-> msgs, raised |-> TRUE]
    ELSE [messages |-> Append(msgs, NewMessage(msgs, conversation_id, content, FALSE, metadata, t)),
          raised |-> FALSE]

\* The orders in which a query may return the conversations of a user
\* (updated_at descending) and the messages (created_at ascending); rows with
\* equal keys come in any order.
ConversationOrders(convs, user_id) ==
    LET ids == {i \in DOMAIN convs : convs[i].user_id = user_id}
        n == Cardinality(ids)
    IN {o \in [1..n -> ids] :
          /\ \A i, j \in 1..n : i # j => o[i] # o[j]
          /\ \A i, j \in 1..n : i < j => convs[o[i]].updated_at >= convs[o[j]].updated_at}

MessageOrders(msgs) ==
    LET n == Len(msgs)
    IN {o \in [1..n -> 1..n] :
          /\ \A i, j \in 1..n : i # j => o[i] # o[j]
          /\ \A i, j \in 1..n : i < j => msgs[o[i]].created_at <= msgs[o[j]].created_at}

RECURSIVE SelectIds(_, _)
SelectIds(order, keep) ==
    IF order = <<>> THEN <<>>
    ELSE IF Head(order) \in keep THEN <<Head(order)>> \o SelectIds(Tail(order), keep)
    ELSE SelectIds(Tail(order), keep)

\* A datetime object as a value of a dict, as opposed to the str that
\* isoformat makes of it.
datetime(t) == [datetime |-> t]

\* isinstance(value, str), for a datetime object or an ISO string
isinstance_str(value) == "iso8601" \in DOMAIN value

\* get_user_history: the user's conversations, most recently updated first,
\* at most limit of them, each with its messages as dicts.  The conversation's
\* created_at is the datetime, a message's created_at its isoformat().
get_user_history(convs, msgs, conv_order, msg_order, limit) ==
    [c \in 1..Min2(limit, Len(conv_order)) |->
        LET conv == convs[conv_order[c]]
            ids == SelectIds(msg_order, {m \in DOMAIN msgs : msgs[m].conversation_id = conv.id})
        IN [created_at |-> datetime(conv.created_at), id |-> conv.id,
            messages |-> [k \in 1..Len(ids) |->
                            [content |-> msgs[ids[k]].content,
                             created_at |-> isoformat(msgs[ids[k]].created_at),
                             id |-> msgs[ids[k]].id,
                             is_user |-> msgs[ids[k]].is_user,
                             metadata |-> Base.metadata]],
            title |-> conv.title]]

\* msg.get("message_metadata") and msg["message_metadata"].get("topics")
MetadataTopics(msg) ==
    IF HasKey(msg, "message_metadata") /\ HasKey(msg["message_metadata"], "topics")
    THEN msg["message_metadata"]["topics"] ELSE <<>>

RECURSIVE Concat(_)
Concat(seqs) == IF seqs = <<>> THEN <<>> ELSE Head(seqs) \o Concat(Tail(seqs))

\* The topics the user messages of the history mention, in the order the
\* loops of lines 24-28 visit them.
UserMentions(history) ==
    Concat([c \in DOMAIN history |->
              Concat([k \in DOMAIN history[c].messages |->
                        IF history[c].messages[k].is_user
                        THEN MetadataTopics(history[c].messages[k]) ELSE <<>>])])

Count(seq, x) == Cardinality({i \in DOMAIN seq : seq[i] = x})

\* the keys of topic_frequency in insertion order
RECURSIVE FirstOccurrences(_, _)
FirstOccurrences(seq, seen) ==
    IF seq = <<>> THEN <<>>
    ELSE IF Head(seq) \in seen THEN FirstOccurrences(Tail(seq), seen)
    ELSE <<Head(seq)>> \o FirstOccurrences(Tail(seq), seen \cup {Head(seq)})

RECURSIVE Filter(_, _)
Filter(seq, keep) ==
    IF seq = <<>> THEN <<>>
    ELSE IF Head(seq) \in keep THEN <<Head(seq)>> \o Filter(Tail(seq), keep)
    ELSE Filter(Tail(seq), keep)

FrequentTopicEntries(history) ==
    LET mentions == UserMentions(history)
        keys == FirstOccurrences(mentions, {})
        frequent == Filter(keys, {x \in SeqRange(keys) : Count(mentions, x) >= 3})
    IN [i \in DOMAIN frequent |->
          [message |-> <<"I notice you've asked about ", frequent[i],
                         " several times. Would you like more comprehensive information about it?">>,
           topic |-> frequent[i], type |-> "frequent_topic"]]

MinutesPerDay == 24 * 60

\* (now - topic["last_mentioned"]).days
DaysSince(t, last_mentioned) == (t - last_mentioned) \div MinutesPerDay

ReminderEntries(topics, t) ==
    LET due == {i \in DOMAIN topics :
                  DaysSince(t, topics[i].last_mentioned) > 7 /\ topics[i].weight > 5}
        ids == Filter([i \in DOMAIN topics |-> i], due)
    IN [i \in DOMAIN ids |->
          [message |-> <<"It's been a while since we discussed ", topics[ids[i]].topic,
                         ". Any updates or questions on that front?">>,
           topic |-> topics[ids[i]].topic, type |-> "reminder"]]

FollowUpEntries(history) ==
    IF history = <<>> THEN <<>>
    ELSE LET last_conversation == history[1] IN
         IF last_conversation.messages = <<>> THEN <<>>
         ELSE LET last_message == last_conversation.messages[Len(last_conversation.messages)] IN
              IF ~last_message.is_user /\ "technology" \in SeqRange(MetadataTopics(last_message))
              THEN <<[message |-> <<"Would you like me to explain more about how this technology works?">>,
                      topic |-> "technology", type |-> "follow_up"]>>
              ELSE <<>>

\* A variant that returns the whole list, without the final slice.
recommendations_slice_All(recommendations) == recommendations

\* recommendations[:3]
recommendations_slice(recommendations) ==
    SubSeq(recommendations, 1, Min2(3, Len(recommendations)))

generate_recommendations(topics, history, t) ==
    recommendations_slice(FrequentTopicEntries(history) \o ReminderEntries(topics, t)
                            \o FollowUpEntries(history))

\* Topic tables the topic store can hold for user 1: rows for the first k
\* keywords, mentioned at time 0, all of weight 6 except possibly the first.
RecommendTopicNames == <<"finance", "health", "technology", "travel">>

SeedTopicTables ==
    {[i \in 1..k |-> [id |-> i, last_mentioned |-> 0, topic |-> RecommendTopicNames[i],
                      user_id |-> 1, weight |-> IF i = 1 THEN w ELSE 6]] :
        k \in 0..Len(RecommendTopicNames), w \in {5, 6}}

\* Clock readings after time 0: seven days, seven days and one hour, and
\* eight days.
RecommendTimes == {7 * MinutesPerDay, 7 * MinutesPerDay + 60, 8 * MinutesPerDay}

TopicMetadata == DictSet(EmptyDict, "topics", <<"technology">>)

CreateConversation(user_id) ==
    LET r == create_conversation(users, conversations, user_id, now) IN
    /\ conversations' = r.conversations
    /\ last' = [op |-> "create_conversation", raised |-> r.raised, user_id |-> user_id]
    /\ UNCHANGED <<users, messages, user_topics, now, client, sent_at, sessions>>

AddUserMessage(user_id, conversation_id, content, metadata) ==
    LET r == add_user_message(conversations, messages, user_id, conversation_id, content, metadata, now) IN
    /\ messages' = r.messages
    /\ last' = [op |-> "add_user_message", raised |-> r.raised, user_id |-> user_id]
    /\ UNCHANGED <<users, conversations, user_topics, now, client, sent_at, sessions>>

AddBotMessage(conversation_id, content, metadata) ==
    LET r == add_bot_message(conversations, messages, conversation_id, content, metadata, now) IN
    /\ messages' = r.messages
    /\ last' = [op |-> "add_bot_message", raised |-> r.raised]
    /\ UNCHANGED <<users, conversations, user_topics, now, client, sent_at, sessions>>

GenerateRecommendations(user_id) ==
    \E order \in TopicOrders(user_topics, user_id),
       conv_order \in ConversationOrders(conversations, user_id),
       msg_order \in MessageOrders(messages) :
        LET topics == get_user_topics(user_topics, order, 20)
            history == get_user_history(conversations, messages, conv_order, msg_order, 10)
        IN
        /\ last' = [op |-> "generate_recommendations",
                    result |-> generate_recommendations(topics, history, now),
                    user_id |-> user_id]
        /\ UNCHANGED <<users, conversations, messages, user_topics, now, client, sent_at, sessions>>

\* A variant of the route that stamps last_recommendation_time.
get_recommendations_Stamping(us, convs, msgs, rows, request, t, choice) ==
    [body |-> [recommendations |->
                 generate_recommendations(
                     get_user_topics(rows, choice.order, 20),
                     get_user_history(convs, msgs, choice.conv_order, choice.msg_order, 10), t)],
     conversations |-> convs, messages |-> msgs, status |-> HTTP_200_OK, user_topics |-> rows,
     users |-> update_user_preferences(us, request.user_id,
                   DictSet(EmptyDict, "last_recommendation_time", isoformat(t)))]

\* GET /recommendations: [status, body, users, conversations, messages,
\* user_topics].  The handler calls generate_recommendations, which runs the
\* two queries of get_user_topics and get_user_history and writes nothing.
get_recommendations(us, convs, msgs, rows, request, t, choice) ==
    [body |-> [recommendations |->
                 generate_recommendations(
                     get_user_topics(rows, choice.order, 20),
                     get_user_history(convs, msgs, choice.conv_order, choice.msg_order, 10), t)],
     conversations |-> convs, messages |-> msgs, status |-> HTTP_200_OK, user_topics |-> rows,
     users |-> us]

GetRecommendations(user_id) ==
    \E order \in TopicOrders(user_topics, user_id),
       conv_order \in ConversationOrders(conversations, user_id),
       msg_order \in MessageOrders(messages) :
        \E r \in {get_recommendations(users, conversations, messages, user_topics,
                                      [user_id |-> user_id], now,
                                      [conv_order |-> conv_order, msg_order |-> msg_order,
                                       order |-> order])} :
            /\ users' = r.users
            /\ conversations' = r.conversations
            /\ messages' = r.messages
            /\ user_topics' = r.user_topics
            /\ last' = [body |-> r.body, op |-> "get_recommendations", status |-> r.status,
                        user_id |-> user_id]
            /\ UNCHANGED <<now, client, sent_at, sessions>>

InitRecommend ==
    /\ users = SeedActiveUsers
    /\ conversations = <<>>
    /\ messages = <<>>
    /\ user_topics \in SeedTopicTables
    /\ now \in RecommendTimes
    /\ client = NoLogin
    /\ sent_at = NeverSent
    /\ sessions = NoSessions
    /\ last = [op |-> "init"]

NextRecommend ==
    \/ Len(conversations) < MaxConversations /\ CreateConversation(1)
    \/ /\ Len(messages) < MaxMessages
       /\ \E c \in 1..MaxConversations : AddUserMessage(1, c, "tell me about technology", TopicMetadata)
    \/ /\ Len(messages) < MaxMessages
       /\ \E c \in 1..MaxConversations : AddBotMessage(c, "a reply about technology", TopicMetadata)
    \/ \E u \in UserIds : GenerateRecommendations(u)

SpecRecommend == InitRecommend /\ [][NextRecommend]_vars

(***************************************************************************)
(* Claims about generate_recommendations (checked under SpecRecommend).    *)
(***************************************************************************)
TypeRank(type) ==
    CASE type = "frequent_topic" -> 1
      [] type = "reminder" -> 2
      [] type = "follow_up" -> 3

DueTopicRows(user_id) ==
    {i \in DOMAIN user_topics :
        /\ user_topics[i].user_id = user_id
        /\ DaysSince(now, user_topics[i].last_mentioned) > 7
        /\ user_topics[i].weight > 5}

\* C3: generate_recommendations returns at most 3 entries; in the returned
\* list every frequent_topic entry comes before every reminder entry, every
\* reminder entry before the follow_up entry, and there is at most one
\* follow_up entry.
C3_AtMostThreeInTypeOrder ==
    last.op = "generate_recommendations"
    => /\ Len(last.result) <= 3
       /\ \A i, j \in DOMAIN last.result :
            i < j => TypeRank(last.result[i].type) <= TypeRank(last.result[j].type)
       /\ Cardinality({i \in DOMAIN last.result : last.result[i].type = "follow_up"}) <= 1

\* C3 witness: a call for a user with four topic rows that are due for a
\* reminder returned exactly three entries.
C3_Witness ==
    /\ last.op = "generate_recommendations"
    /\ Cardinality(DueTopicRows(last.user_id)) > 3
    /\ Len(last.result) = 3

(***************************************************************************)
(* The chat pipeline: ContextBuilder, AIEngine.process_input, POST /chat.  *)
(* A message is the sequence of its words.                                 *)
(***************************************************************************)
\* Optional[int]: None, or an int
None == <<>>

Some(x) == <<x>>

\* "not conversation_id"
Falsy(optional) == optional = None \/ optional[1] = 0

keywords ==
    <<"finance", "health", "technology", "travel", "food", "education", "sports",
      "entertainment", "news", "weather">>

\* str.lower() on the words the model uses
lower(word) ==
    CASE word = "Technology" -> "technology"
      [] word = "News" -> "news"
      [] OTHER -> word

\* _extract_topics: the keywords the lower-cased message contains, in the
\* order of the keyword list (each at most once).
extract_topics(message) == Filter(keywords, {lower(message[i]) : i \in DOMAIN message})

\* _analyze_message with the dummy analyzers of _init_nlp_components
analyze_message(message) ==
    [entities |-> <<>>, sentiment |-> [label |-> "NEUTRAL", score |-> "0.5"],
     topics |-> extract_topics(message)]

\* The entities Session.query accepts: the mapped classes.  A str is not one.
MappedClasses ==
    {[class |-> "User"], [class |-> "Conversation"], [class |-> "Message"], [class |-> "UserTopic"]}

\* ContextBuilder(user_profile_service): max_history_items defaults to 10.
max_history_items == 10

\* seq[start:] for a start that is zero or negative: a negative start counts
\* from the end, and -0 is 0, the start of the list.
slice_from(seq, start) ==
    IF start = 0 THEN seq
    ELSE SubSeq(seq, Len(seq) - Min2(-start, Len(seq)) + 1, Len(seq))

\* _get_conversation_history: the messages of the conversation by timestamp,
\* the last max_history_items of them; nothing for an unknown conversation.
get_conversation_history(convs, msgs, conversation_id, msg_order, n) ==
    IF conversation_id \notin DOMAIN convs THEN <<>>
    ELSE LET ids == SelectIds(msg_order, {m \in DOMAIN msgs : msgs[m].conversation_id = conversation_id})
             all == [k \in 1..Len(ids) |->
                       [content |-> msgs[ids[k]].content, is_user |-> msgs[ids[k]].is_user,
                        timestamp |-> msgs[ids[k]].created_at]]
         IN slice_from(all, -n)

\* _get_user_preferences: [raised, error, value].  The query is built on the
\* string "User"; a row object, were one returned, has no method get.
get_user_preferences(us, user_id) ==
    LET entity == [str |-> "User"]
        user == FirstOrNone({i \in DOMAIN us : us[i].id = user_id})
    IN IF entity \notin MappedClasses
       THEN [error |-> "ArgumentError", raised |-> TRUE, value |-> EmptyDict]
       ELSE IF user # 0
       THEN [error |-> "AttributeError", raised |-> TRUE, value |-> EmptyDict]
       ELSE [error |-> "", raised |-> FALSE, value |-> EmptyDict]

SystemInstruction ==
    "You are a helpful assistant that learns from user interactions. You should tailor your responses based on the user's history and preferences. "

\* The "key: value, " items of the preferences, joined and stripped of the
\* trailing ", ": one part that stands for the items of the dict.
PreferenceItems(user_preferences) == [items |-> user_preferences]

\* The "\nRole: content" lines of the history.
HistoryLines(conversation_history) ==
    [k \in DOMAIN conversation_history |->
       [content |-> conversation_history[k].content,
        role |-> IF conversation_history[k].is_user THEN "User" ELSE "Assistant"]]

\* _format_context: the prompt as the sequence of the parts it is
\* concatenated from.  topics arrive ordered by weight, descending, and the
\* sort of _format_context is stable.
format_context(current_message, conversation_history, topics, user_preferences) ==
    <<SystemInstruction>>
    \o (IF user_preferences # EmptyDict
        THEN <<"The user has the following preferences: ",
               PreferenceItems(user_preferences), ". ">>
        ELSE <<>>)
    \o (IF topics # <<>>
        THEN <<"The user has shown interest in the following topics: ",
               [k \in 1..Min2(5, Len(topics)) |-> topics[k].topic], ". ">>
        ELSE <<>>)
    \o (IF conversation_history # <<>>
        THEN <<"Here's the recent conversation history: ",
               HistoryLines(conversation_history)>>
        ELSE <<>>)
    \o <<"\nUser: ", current_message, "\nAssistant: ">>

\* build_context: [raised, error, context]
build_context(us, convs, msgs, rows, user_id, conversation_id, current_message, choice) ==
    LET conversation_history == get_conversation_history(convs, msgs, conversation_id,
                                                        choice.msg_order, max_history_items)
        topics == get_user_topics(rows, choice.context_order, 20)
        user_preferences == get_user_preferences(us, user_id)
    IN IF user_preferences.raised
       THEN [context |-> <<>>, error |-> user_preferences.error, raised |-> TRUE]
       ELSE [context |-> format_context(current_message, conversation_history, topics,
                                         user_preferences.value),
             error |-> "", raised |-> FALSE]

Apology ==
    "I'm sorry, I'm having trouble generating a response right now. Please try again later."

\* _generate_response: the provider's text, or the apology when the call to
\* the provider raises.
generate_response(context, provider) ==
    IF provider = "ok" THEN "generated response" ELSE Apology

\* The dict process_input returns.
process_input_return(response, message_metadata, conversation_id, proactive_recommendation) ==
    [conversation_id |-> conversation_id,
     message_metadata |-> message_metadata,
     proactive_recommendation |-> proactive_recommendation,
     response |-> response]

\* A variant that restores the topic rows when a later step fails.
process_input_Compensating(us, convs, msgs, rows, user_id, conversation_id, message, t, choice) ==
    LET message_metadata == analyze_message(message)
        topics_update ==
            IF message_metadata.topics # <<>>
            THEN update_user_topics(us, rows, user_id, message_metadata.topics, t, choice.first)
            ELSE [error |-> "", raised |-> FALSE, user_topics |-> rows]
        rows1 == topics_update.user_topics
        built == build_context(us, convs, msgs, rows1, user_id, conversation_id, message, choice)
        response == generate_response(built.context, choice.provider)
        send == should_send_recommendation(us, user_id, t)
        recommendations ==
            generate_recommendations(
                get_user_topics(rows1, choice.order, 20),
                get_user_history(convs, msgs, choice.conv_order, choice.msg_order, 10), t)
        proactive_recommendation ==
            IF send.result /\ recommendations # <<>>
            THEN Some(recommendations[1].message) ELSE None
        with_user == add_user_message(convs, msgs, user_id, conversation_id, message,
                                      message_metadata, t)
        with_bot == add_bot_message(convs, with_user.messages, conversation_id, response,
                                    [ai_model |-> "gpt-3.5-turbo", response_time |-> 0], t)
        failed(error, users1, messages1) ==
            [error |-> error, messages |-> messages1, raised |-> TRUE, result |-> EmptyDict,
             user_topics |-> rows, users |-> users1]
    IN IF topics_update.raised THEN failed(topics_update.error, us, msgs)
       ELSE IF built.raised THEN failed(built.error, us, msgs)
       ELSE IF with_user.raised THEN failed("IntegrityError", send.users, msgs)
       ELSE IF with_bot.raised THEN failed("IntegrityError", send.users, with_user.messages)
       ELSE [error |-> "", messages |-> with_bot.messages, raised |-> FALSE,
             result |-> process_input_return(response, message_metadata, conversation_id,
                                             proactive_recommendation),
             user_topics |-> rows1, users |-> send.users]

\* The state process_input leaves and what it gives back:
\* [raised, error, result, users, messages, user_topics].
process_input(us, convs, msgs, rows, user_id, conversation_id, message, t, choice) ==
    LET message_metadata == analyze_message(message)
        topics_update ==
            IF message_metadata.topics # <<>>
            THEN update_user_topics(us, rows, user_id, message_metadata.topics, t, choice.first)
            ELSE [error |-> "", raised |-> FALSE, user_topics |-> rows]
        rows1 == topics_update.user_topics
        built == build_context(us, convs, msgs, rows1, user_id, conversation_id, message, choice)
        response == generate_response(built.context, choice.provider)
        send == should_send_recommendation(us, user_id, t)
        recommendations ==
            generate_recommendations(
                get_user_topics(rows1, choice.order, 20),
                get_user_history(convs, msgs, choice.conv_order, choice.msg_order, 10), t)
        proactive_recommendation ==
            IF send.result /\ recommendations # <<>>
            THEN Some(recommendations[1].message) ELSE None
        with_user == add_user_message(convs, msgs, user_id, conversation_id, message,
                                      message_metadata, t)
        with_bot == add_bot_message(convs, with_user.messages, conversation_id, response,
                                    [ai_model |-> "gpt-3.5-turbo", response_time |-> 0], t)
        failed(error, users1, messages1) ==
            [error |-> error, messages |-> messages1, raised |-> TRUE, result |-> EmptyDict,
             user_topics |-> rows1, users |-> users1]
    IN IF topics_update.raised THEN failed(topics_update.error, us, msgs)
       ELSE IF built.raised THEN failed(built.error, us, msgs)
       ELSE IF with_user.raised THEN failed("IntegrityError", send.users, msgs)
       ELSE IF with_bot.raised THEN failed("IntegrityError", send.users, with_user.messages)
       ELSE [error |-> "", messages |-> with_bot.messages, raised |-> FALSE,
             result |-> process_input_return(response, message_metadata, conversation_id,
                                             proactive_recommendation),
             user_topics |-> rows1, users |-> send.users]

\* The keys the handler of POST /chat reads from the result of process_input.
ChatReads == {"response", "metadata", "proactive_recommendation"}

\* POST /chat: [status, body, raised_in, users, conversations, messages,
\* user_topics].  An exception that leaves the handler is answered with 500.
chat(us, convs, msgs, rows, request, t, choice) ==
    LET created ==
            IF Falsy(request.conversation_id)
            THEN create_conversation(us, convs, request.user_id, t)
            ELSE [conversation |-> [id |-> request.conversation_id[1]], conversations |-> convs,
                  raised |-> FALSE]
        conversation_id == created.conversation.id
        r == process_input(us, created.conversations, msgs, rows, request.user_id,
                           conversation_id, request.message, t, choice)
        error(raised_in, us1, msgs1, rows1) ==
            [body |-> [detail |-> "Internal Server Error"],
             conversations |-> created.conversations, messages |-> msgs1, raised_in |-> raised_in,
             status |-> HTTP_500_INTERNAL_SERVER_ERROR, user_topics |-> rows1, users |-> us1]
    IN IF created.raised THEN error("create_conversation", us, msgs, rows)
       ELSE IF r.raised THEN error("process_input", r.users, r.messages, r.user_topics)
       ELSE IF ~(ChatReads \subseteq DOMAIN r.result)
       THEN error("chat", r.users, r.messages, r.user_topics)
       ELSE [body |-> [conversation_id |-> conversation_id,
                       metadata |-> r.result["metadata"],
                       proactive_recommendation |-> r.result["proactive_recommendation"],
                       response |-> r.result["response"]],
             conversations |-> created.conversations, messages |-> r.messages, raised_in |-> "",
             status |-> HTTP_200_OK, user_topics |-> r.user_topics, users |-> r.users]

ChatMessages == {<<"hello">>, <<"Technology", "news">>}

ChatUserIds == {1, 3}

ConversationIds == {None, Some(0), Some(1), Some(2)}

Providers == {"ok", "fails"}

\* The table update_user_topics leaves for the request, for the choice of rows
\* that the queries of the loop return.
TopicsAfter(request, first) ==
    IF extract_topics(request.message) = <<>> THEN user_topics
    ELSE update_user_topics(users, user_topics, request.user_id,
                            extract_topics(request.message), now, first).user_topics

Chat(request, provider) ==
    \E first \in FirstChoices(user_topics, request.user_id, extract_topics(request.message)) :
    \E context_order \in TopicOrders(TopicsAfter(request, first), request.user_id),
       order \in TopicOrders(TopicsAfter(request, first), request.user_id),
       conv_order \in ConversationOrders(conversations, request.user_id),
       msg_order \in MessageOrders(messages) :
        \E r \in {chat(users, conversations, messages, user_topics, request, now,
                        [context_order |-> context_order, conv_order |-> conv_order,
                         first |-> first, msg_order |-> msg_order, order |-> order,
                         provider |-> provider])} :
        /\ Len(r.conversations) <= MaxConversations
        /\ Len(r.messages) <= MaxMessages
        /\ WithinTopicBounds(r.user_topics)
        /\ users' = r.users
        /\ conversations' = r.conversations
        /\ messages' = r.messages
        /\ user_topics' = r.user_topics
        /\ last' = [body |-> r.body,
                    conversation_exists |-> (~Falsy(request.conversation_id)
                                               => request.conversation_id[1] \in DOMAIN conversations),
                    conversation_id |-> request.conversation_id,
                    conversations_before |-> Len(conversations),
                    known_user |-> (request.user_id \in DOMAIN users),
                    messages_before |-> Len(messages),
                    op |-> "chat",
                    provider |-> provider,
                    raised_in |-> r.raised_in,
                    status |-> r.status]
        /\ UNCHANGED <<now, client, sent_at, sessions>>

InitChat ==
    /\ users = SeedActiveUsers
    /\ conversations = <<>>
    /\ messages = <<>>
    /\ user_topics = <<>>
    /\ now = 0
    /\ client = NoLogin
    /\ sent_at = NeverSent
    /\ sessions = NoSessions
    /\ last = [op |-> "init"]

NextChat ==
    \/ Tick(1..MaxTopicTime)
    \/ \E u \in ChatUserIds, c \in ConversationIds, m \in ChatMessages, p \in Providers :
         Chat([conversation_id |-> c, message |-> m, user_id |-> u], p)

SpecChat == InitChat /\ [][NextChat]_vars

(***************************************************************************)
(* Claims about the chat pipeline (checked under SpecChat).  A request is  *)
(* well-formed when its user exists and the conversation it names, if it   *)
(* names one, exists.                                                      *)
(***************************************************************************)
WellFormedChat == last.op = "chat" /\ last.known_user /\ last.conversation_exists

ConversationsCreated == Len(conversations) - last.conversations_before

\* The request has added exactly two messages to conversation c: a user
\* message, then a generated message.
TwoMessagesAddedTo(c) ==
    /\ Len(messages) = last.messages_before + 2
    /\ messages[last.messages_before + 1].is_user
    /\ ~messages[last.messages_before + 2].is_user
    /\ messages[last.messages_before + 1].conversation_id = c
    /\ messages[last.messages_before + 2].conversation_id = c

\* C4: a chat request creates a new conversation if and only if its
\* conversation_id is null, and then exactly one; in either case exactly two
\* messages (one user message, then one generated message) have been added to
\* the conversation whose id is returned, which for a non-null
\* conversation_id is the id given in the request.
C4_ConversationIffNullAndTwoMessages ==
    WellFormedChat
    => /\ (ConversationsCreated > 0 <=> last.conversation_id = None)
       /\ ConversationsCreated <= 1
       /\ last.status = HTTP_200_OK
       /\ TwoMessagesAddedTo(last.body.conversation_id)
       /\ (last.conversation_id # None => last.body.conversation_id = last.conversation_id[1])

\* C5: a chat request processed by the AI engine completes with a success
\* response carrying the reply text, the message metadata, the optional
\* proactive recommendation and the conversation id; every key the handler
\* reads from the result of process_input is a key of what process_input
\* returns.
C5_SuccessResponseWithAllFields ==
    WellFormedChat
    => /\ ChatReads \subseteq DOMAIN process_input_return(Apology, EmptyDict, 1, None)
       /\ last.status = HTTP_200_OK
       /\ {"response", "metadata", "proactive_recommendation", "conversation_id"}
             \subseteq DOMAIN last.body

\* C6: when the call to the language-model provider fails, process_input does
\* not fail; the response is the apology, the provider's error does not reach
\* the caller, and the user message and the apology are both persisted.
C6_ProviderFailureGivesApology ==
    (WellFormedChat /\ last.provider = "fails")
    => /\ last.raised_in # "process_input"
       /\ Len(messages) = last.messages_before + 2
       /\ messages[last.messages_before + 1].is_user
       /\ messages[last.messages_before + 2].content = Apology

(***************************************************************************)
(* The voice endpoints: src/app/api/voice.py and                           *)
(* src/app/services/voice/voice_service.py.  A content type "a/b" is the   *)
(* pair <<"a", "b">>, one without a slash is <<"a">>, the empty one <<>>.  *)
(* A formatted string is the sequence of its parts.  The provider (the     *)
(* Whisper model, the ElevenLabs API) is the environment: its answer to a  *)
(* call is an input of the request.                                        *)
(***************************************************************************)
\* The functions of the two service classes, by attribute name.  The class
\* bodies bind transcribe to speech_to_text (WhisperSTTService) and
\* text_to_speech to synthesize (ElevenLabsTTSService): two names, one
\* function.
WhisperSTTService_NoAlias ==
    [speech_to_text |-> "WhisperSTTService.speech_to_text",
     synthesize |-> "WhisperSTTService.synthesize",
     text_to_speech |-> "WhisperSTTService.text_to_speech",
     transcribe |-> "WhisperSTTService.transcribe"]

WhisperSTTService ==
    [speech_to_text |-> "WhisperSTTService.speech_to_text",
     synthesize |-> "WhisperSTTService.synthesize",
     text_to_speech |-> "WhisperSTTService.text_to_speech",
     transcribe |-> "WhisperSTTService.speech_to_text"]

ElevenLabsTTSService ==
    [speech_to_text |-> "ElevenLabsTTSService.speech_to_text",
     synthesize |-> "ElevenLabsTTSService.synthesize",
     text_to_speech |-> "ElevenLabsTTSService.synthesize",
     transcribe |-> "ElevenLabsTTSService.transcribe"]

\* str.lower() on provider names
lower_provider(provider) ==
    CASE provider = "Whisper" -> "whisper"
      [] provider = "ElevenLabs" -> "elevenlabs"
      [] OTHER -> provider

\* get_stt_service / create_stt_service: [raised, error, service].  The
\* constructor of WhisperSTTService imports whisper and loads the model.
get_stt_service(env) ==
    IF lower_provider(env.STT_PROVIDER) = "whisper"
    THEN IF env.whisper_installed
         THEN [error |-> "", raised |-> FALSE, service |-> WhisperSTTService]
         ELSE [error |-> "ImportError", raised |-> TRUE, service |-> WhisperSTTService]
    ELSE [error |-> "ValueError", raised |-> TRUE, service |-> WhisperSTTService]

\* get_tts_service / create_tts_service: [raised, error, service]
get_tts_service(env) ==
    IF lower_provider(env.TTS_PROVIDER) = "elevenlabs"
    THEN IF env.ELEVENLABS_API_KEY = None
         THEN [error |-> "ValueError", raised |-> TRUE, service |-> ElevenLabsTTSService]
         ELSE [error |-> "", raised |-> FALSE, service |-> ElevenLabsTTSService]
    ELSE [error |-> "ValueError", raised |-> TRUE, service |-> ElevenLabsTTSService]

\* content_type.startswith("audio/")
startswith_audio(content_type) == Len(content_type) >= 2 /\ content_type[1] = "audio"

\* str.strip() on the texts the model's Whisper returns
strip(text) ==
    CASE text = " hello world " -> "hello world"
      [] text = "hello " -> "hello"
      [] OTHER -> text

\* WhisperSTTService.speech_to_text: [raised, message, value, model_calls].
\* answer is what model.transcribe does: it returns a text or raises.
whisper_speech_to_text(audio_file, answer) ==
    IF answer.raises
    THEN [message |-> answer.message, model_calls |-> 1, raised |-> TRUE, value |-> ""]
    ELSE [message |-> "", model_calls |-> 1, raised |-> FALSE, value |-> strip(answer.text)]

\* A variant that returns the content whatever the status code is.
elevenlabs_synthesize_NoStatusCheck(text, voice_id, answer) ==
    IF answer.raises
    THEN [message |-> <<answer.message>>, raised |-> TRUE, url_voice |-> "", value |-> <<>>]
    ELSE [message |-> <<>>, raised |-> FALSE, url_voice |-> "", value |-> answer.content]

\* ElevenLabsTTSService.synthesize: [raised, message, value, url_voice].
\* answer is what requests.post does: it raises, or returns a response.
elevenlabs_synthesize(text, voice_id, answer) ==
    LET voice == IF voice_id = None \/ voice_id = Some("") THEN "21m00Tcm4TlvDq8ikWAM"
                 ELSE voice_id[1]
    IN IF answer.raises
       THEN [message |-> <<answer.message>>, raised |-> TRUE, url_voice |-> voice, value |-> <<>>]
       ELSE IF answer.status_code = HTTP_200_OK
       THEN [message |-> <<>>, raised |-> FALSE, url_voice |-> voice, value |-> answer.content]
       ELSE [message |-> <<"ElevenLabs API error: ", answer.text>>, raised |-> TRUE,
             url_voice |-> voice, value |-> <<>>]

\* What a request has called on the injected service: the function and its
\* arguments, in order.
ServiceCall(service, attribute, args) == [args |-> args, function |-> service[attribute]]

\* A variant of the handler without the validation of the file type.
speech_to_text_NoValidation(env, audio_file, answer) ==
    LET stt_service == get_stt_service(env)
        r == whisper_speech_to_text(audio_file.file, answer)
        call == ServiceCall(stt_service.service, "speech_to_text", <<audio_file.file>>)
    IN IF stt_service.raised
       THEN [body |-> [detail |-> <<"Internal Server Error">>], calls |-> <<>>,
             status |-> HTTP_500_INTERNAL_SERVER_ERROR]
       ELSE IF r.raised
       THEN [body |-> [detail |-> <<"Error processing audio: ", r.message>>],
             calls |-> <<call>>, status |-> HTTP_500_INTERNAL_SERVER_ERROR]
       ELSE [body |-> [text |-> r.value], calls |-> <<call>>, status |-> HTTP_200_OK]

\* POST /api/voice/stt: [status, body, calls]
speech_to_text(env, audio_file, answer) ==
    LET stt_service == get_stt_service(env)
        r == whisper_speech_to_text(audio_file.file, answer)
        call == ServiceCall(stt_service.service, "speech_to_text", <<audio_file.file>>)
    IN IF stt_service.raised
       THEN [body |-> [detail |-> <<"Internal Server Error">>], calls |-> <<>>,
             status |-> HTTP_500_INTERNAL_SERVER_ERROR]
       ELSE IF ~startswith_audio(audio_file.content_type)
       THEN [body |-> [detail |-> <<"Invalid file type. Please upload an audio file.">>],
             calls |-> <<>>, status |-> HTTP_400_BAD_REQUEST]
       ELSE IF r.raised
       THEN [body |-> [detail |-> <<"Error processing audio: ", r.message>>],
             calls |-> <<call>>, status |-> HTTP_500_INTERNAL_SERVER_ERROR]
       ELSE [body |-> [text |-> r.value], calls |-> <<call>>, status |-> HTTP_200_OK]

\* POST /api/voice/tts: [status, body, calls]
text_to_speech(env, request, answer) ==
    LET tts_service == get_tts_service(env)
        r == elevenlabs_synthesize(request.text, request.voice_id, answer)
        call == ServiceCall(tts_service.service, "text_to_speech", <<request.text, request.voice_id>>)
    IN IF tts_service.raised
       THEN [body |-> [detail |-> <<"Internal Server Error">>], calls |-> <<>>,
             status |-> HTTP_500_INTERNAL_SERVER_ERROR]
       ELSE IF r.raised
       THEN [body |-> [detail |-> <<"Error generating speech: ">> \o r.message],
             calls |-> <<call>>, status |-> HTTP_500_INTERNAL_SERVER_ERROR]
       ELSE [body |-> [content |-> r.value, media_type |-> "audio/mpeg"],
             calls |-> <<call>>, status |-> HTTP_200_OK]

\* The environment variables and the installed packages; the settings of one
\* service vary while the other service is configured.
SttEnvs ==
    {[ELEVENLABS_API_KEY |-> Some("key"), STT_PROVIDER |-> s, TTS_PROVIDER |-> "elevenlabs",
      whisper_installed |-> w] : s \in {"whisper", "Whisper", "azure"}, w \in BOOLEAN}

TtsEnvs ==
    {[ELEVENLABS_API_KEY |-> k, STT_PROVIDER |-> "whisper", TTS_PROVIDER |-> t,
      whisper_installed |-> TRUE] :
        k \in {None, Some("key")}, t \in {"elevenlabs", "ElevenLabs", "azure"}}

ContentTypes ==
    {<<"audio", "wav">>, <<"audio", "mpeg">>, <<"text", "plain">>, <<"video", "mp4">>,
     <<"Audio", "wav">>, <<"audio">>, <<>>}

AudioFiles ==
    {[content_type |-> c, file |-> f] :
        c \in ContentTypes, f \in {"test audio content", "not an audio file"}}

WhisperAnswers ==
    {[message |-> "", raises |-> FALSE, text |-> x] : x \in {" hello world ", "hello "}}
      \cup {[message |-> "CUDA out of memory", raises |-> TRUE, text |-> ""]}

TTSRequests ==
    {[text |-> x, voice_id |-> v] :
        x \in {"Convert this text to speech", ""}, v \in {None, Some(""), Some("en-US-1")}}

ElevenLabsAnswers ==
    {[content |-> <<"fake audio data">>, message |-> "", raises |-> FALSE,
      status_code |-> HTTP_200_OK, text |-> ""],
     [content |-> <<>>, message |-> "", raises |-> FALSE,
      status_code |-> HTTP_401_UNAUTHORIZED, text |-> "invalid api key"],
     [content |-> <<>>, message |-> "Read timed out", raises |-> TRUE,
      status_code |-> HTTP_500_INTERNAL_SERVER_ERROR, text |-> ""]}

SpeechToText(env, audio_file, answer) ==
    /\ last' = [answer |-> answer, audio_file |-> audio_file, env |-> env, op |-> "speech_to_text",
                resp |-> speech_to_text(env, audio_file, answer)]
    /\ UNCHANGED <<users, conversations, messages, user_topics, now, client, sent_at, sessions>>

TextToSpeech(env, request, answer) ==
    /\ last' = [answer |-> answer, env |-> env, op |-> "text_to_speech", request |-> request,
                resp |-> text_to_speech(env, request, answer)]
    /\ UNCHANGED <<users, conversations, messages, user_topics, now, client, sent_at, sessions>>

InitVoice ==
    /\ users = SeedActiveUsers
    /\ conversations = <<>>
    /\ messages = <<>>
    /\ user_topics = <<>>
    /\ now = 0
    /\ client = NoLogin
    /\ sent_at = NeverSent
    /\ sessions = NoSessions
    /\ last = [op |-> "init"]

NextVoice ==
    \/ \E env \in SttEnvs, f \in AudioFiles, a \in WhisperAnswers : SpeechToText(env, f, a)
    \/ \E env \in TtsEnvs, r \in TTSRequests, a \in ElevenLabsAnswers : TextToSpeech(env, r, a)

SpecVoice == InitVoice /\ [][NextVoice]_vars

(***************************************************************************)
(* Claims about the voice endpoints (checked under SpecVoice).  The claims *)
(* are about requests that reach the handler: the service the handler      *)
(* depends on could be constructed.                                        *)
(***************************************************************************)
SttRequest == last.op = "speech_to_text" /\ ~get_stt_service(last.env).raised

TtsRequest == last.op = "text_to_speech" /\ ~get_tts_service(last.env).raised

\* C11: a speech-to-text request whose file's content type does not start
\* with "audio/" is rejected with 400 "Invalid file type ..." and nothing is
\* called on the STT service for it.
C11_InvalidFileTypeRejected ==
    (SttRequest /\ ~startswith_audio(last.audio_file.content_type))
    => /\ last.resp.status = HTTP_400_BAD_REQUEST
       /\ last.resp.body.detail = <<"Invalid file type. Please upload an audio file.">>
       /\ last.resp.calls = <<>>

\* C11 witness: a text/plain upload was answered.
C11_Witness ==
    /\ SttRequest
    /\ last.audio_file.content_type = <<"text", "plain">>
    /\ last.resp.status = HTTP_400_BAD_REQUEST

\* The message of the exception the provider's failure raises in the service.
SttProviderFailed == last.answer.raises

TtsProviderFailed == last.answer.raises \/ last.answer.status_code # HTTP_200_OK

TtsFailureMessage ==
    IF last.answer.raises THEN <<last.answer.message>>
    ELSE <<"ElevenLabs API error: ", last.answer.text>>

CallsOf(function) == {i \in DOMAIN last.resp.calls : last.resp.calls[i].function = function}

MaxHistoryConversations == 2
MaxHistoryMessages == 3

\* The response model of GET /user/history: ConversationModel declares
\* created_at: str.  id, title and messages have the declared types by
\* construction.
ConversationModel_valid(conv) == isinstance_str(conv.created_at)

\* GET /user/history: [status, body].  The value returned is validated
\* against UserHistoryResponse; a value that does not validate is answered
\* with 500.
get_user_history_route(convs, msgs, request, conv_order, msg_order) ==
    LET history == get_user_history(convs, msgs, conv_order, msg_order, request.limit) IN
    IF \E c \in DOMAIN history : ~ConversationModel_valid(history[c])
    THEN [body |-> [detail |-> <<"Internal Server Error">>],
          status |-> HTTP_500_INTERNAL_SERVER_ERROR]
    ELSE [body |-> [conversations |-> history], status |-> HTTP_200_OK]

\* A Message row written with its message_metadata column, the way
\* create_test_user writes the sample messages.
SampleMessage(msgs, conversation_id, content, is_user, message_metadata, t) ==
    [content |-> content, conversation_id |-> conversation_id, created_at |-> t,
     id |-> Len(msgs) + 1, is_user |-> is_user, message_metadata |-> message_metadata]

InsertSampleMessage(conversation_id, content, is_user, message_metadata) ==
    /\ conversation_id \in DOMAIN conversations
    /\ messages' = Append(messages,
                          SampleMessage(messages, conversation_id, content, is_user,
                                        message_metadata, now))
    /\ last' = [op |-> "insert_sample_message"]
    /\ UNCHANGED <<users, conversations, user_topics, now, client, sent_at, sessions>>

FetchHistory(user_id, limit) ==
    \E conv_order \in ConversationOrders(conversations, user_id),
       msg_order \in MessageOrders(messages) :
        /\ last' = [limit |-> limit, op |-> "fetch_history",
                    resp |-> get_user_history_route(conversations, messages,
                                                    [limit |-> limit, user_id |-> user_id],
                                                    conv_order, msg_order),
                    user_id |-> user_id]
        /\ UNCHANGED <<users, conversations, messages, user_topics, now, client, sent_at, sessions>>

HistoryLimits == {1, 10}

ConversationsOf(user_id) == {c \in DOMAIN conversations : conversations[c].user_id = user_id}

MessagesOf(conversation_id) ==
    {m \in DOMAIN messages : messages[m].conversation_id = conversation_id}

InitHistory ==
    /\ users = SeedActiveUsers
    /\ conversations = <<>>
    /\ messages = <<>>
    /\ user_topics = <<>>
    /\ now = 0
    /\ client = NoLogin
    /\ sent_at = NeverSent
    /\ sessions = NoSessions
    /\ last = [op |-> "init"]

NextHistory ==
    \/ Tick(1..MaxTopicTime)
    \/ /\ Len(conversations) < MaxHistoryConversations
       /\ \E u \in UserIds : CreateConversation(u)
    \/ /\ Len(messages) < MaxHistoryMessages
       /\ \E c \in ConversationsOf(1) :
            \/ AddUserMessage(conversations[c].user_id, c, "tell me about technology", TopicMetadata)
            \/ AddBotMessage(c, "a reply about technology", TopicMetadata)
            \/ \E is_user \in BOOLEAN :
                 InsertSampleMessage(c, "Can you tell me about machine learning?", is_user, TopicMetadata)
    \/ \E u \in UserIds, limit \in HistoryLimits : FetchHistory(u, limit)
    \/ GenerateRecommendations(1)

SpecHistory == InitHistory /\ [][NextHistory]_vars

(***************************************************************************)
(* Claims about the history (checked under SpecHistory).                   *)
(***************************************************************************)
\* The entry of a fetched history carries all the messages of its
\* conversation, in ascending order of creation.
CarriesItsMessages(entry) ==
    /\ {entry.messages[k].id : k \in DOMAIN entry.messages} = MessagesOf(entry.id)
    /\ Len(entry.messages) = Cardinality(MessagesOf(entry.id))
    /\ \A j, k \in DOMAIN entry.messages :
         j < k => fromisoformat(entry.messages[j].created_at)
                    <= fromisoformat(entry.messages[k].created_at)

\* C14: fetch-history for user u with limit L returns only conversations
\* owned by u, at most L of them, most recently updated first, each carrying
\* all of its messages in ascending creation order; for a user who has a
\* stored conversation (and L >= 1) the result is a non-empty list whose first
\* entry is a most recently updated conversation of u.
C14_FetchHistoryReturnsOwnConversations ==
    last.op = "fetch_history"
    => /\ last.resp.status = HTTP_200_OK
       /\ LET history == last.resp.body.conversations IN
          /\ \A c \in DOMAIN history : history[c].id \in ConversationsOf(last.user_id)
          /\ Len(history) <= last.limit
          /\ \A c, d \in DOMAIN history :
               c < d => conversations[history[c].id].updated_at
                          >= conversations[history[d].id].updated_at
          /\ \A c \in DOMAIN history : CarriesItsMessages(history[c])
          /\ (ConversationsOf(last.user_id) # {} /\ last.limit >= 1)
             => /\ history # <<>>
                /\ \A c \in ConversationsOf(last.user_id) :
                     conversations[history[1].id].updated_at >= conversations[c].updated_at

(***************************************************************************)
(* ContextBuilder.build_context called on its own.                         *)
(***************************************************************************)
BuildContext(user_id, conversation_id, current_message) ==
    \E msg_order \in MessageOrders(messages),
       context_order \in TopicOrders(user_topics, user_id) :
        \E r \in {build_context(users, conversations, messages, user_topics, user_id,
                                conversation_id, current_message,
                                [context_order |-> context_order, msg_order |-> msg_order])} :
            /\ last' = [conversation_id |-> conversation_id,
                        current_message |-> current_message,
                        op |-> "build_context", result |-> r, user_id |-> user_id]
            /\ UNCHANGED <<users, conversations, messages, user_topics, now, client, sent_at, sessions>>

\* ContextBuilder configured with max_history_items = n: the history it reads
\* for the conversation and the prompt _format_context renders from it.
GetConversationHistory(conversation_id, n) ==
    \E msg_order \in MessageOrders(messages) :
        \E h \in {get_conversation_history(conversations, messages, conversation_id, msg_order, n)} :
            /\ last' = [context |-> format_context(<<"hello">>, h, <<>>, EmptyDict),
                        conversation_id |-> conversation_id,
                        history |-> h,
                        max_history_items |-> n,
                        op |-> "get_conversation_history"]
            /\ UNCHANGED <<users, conversations, messages, user_topics, now, client, sent_at, sessions>>

HistoryItemLimits == {0, 1, max_history_items}

InitContext ==
    /\ users = SeedActiveUsers
    /\ conversations = <<>>
    /\ messages = <<>>
    /\ user_topics = <<>>
    /\ now = 0
    /\ client = NoLogin
    /\ sent_at = NeverSent
    /\ sessions = NoSessions
    /\ last = [op |-> "init"]

NextContext ==
    \/ Tick(1..MaxTopicTime)
    \/ /\ Len(conversations) < MaxConversations
       /\ \E u \in UserIds : CreateConversation(u)
    \/ /\ Len(messages) < MaxMessages
       /\ \E c \in DOMAIN conversations :
            \/ AddUserMessage(conversations[c].user_id, c, <<"hello">>, EmptyDict)
            \/ AddBotMessage(c, <<"generated", "response">>, EmptyDict)
    \/ \E a \in TopicNames : UpdateUserTopics(1, <<a>>)
    \/ \E u \in UserIds, c \in 1..MaxConversations, m \in ChatMessages : BuildContext(u, c, m)
    \/ \E c \in 1..(MaxConversations + 1), n \in HistoryItemLimits : GetConversationHistory(c, n)

SpecContext == InitContext /\ [][NextContext]_vars

(***************************************************************************)
(* Claims about the context prompt (checked under SpecContext).            *)
(***************************************************************************)
\* build_context was called for a user with no topic rows and an empty
\* preference map, and a conversation with no stored messages.
NothingKnown ==
    /\ last.op = "build_context"
    /\ MessagesOf(last.conversation_id) = {}
    /\ \A i \in DOMAIN user_topics : user_topics[i].user_id # last.user_id
    /\ \A i \in DOMAIN users :
         users[i].id = last.user_id => users[i].preferences = EmptyDict

\* C15: for a user and conversation with no stored messages, no topics and an
\* empty preference map, build_context returns a prompt with no preferences
\* clause, no topics clause and no history clause, which ends with
\* "User: <current message>", a newline and "Assistant: ".
C15_EmptyInputsOmitEveryClause ==
    NothingKnown
    => /\ ~last.result.raised
       /\ last.result.context
            = <<SystemInstruction, "\nUser: ", last.current_message, "\nAssistant: ">>

(***************************************************************************)
(* Claims about the rows of the topic store (checked under SpecTopics).    *)
(***************************************************************************)
\* C16: after any sequence of update_user_topics calls executed one at a
\* time, there is at most one topic row per (user, topic name) pair.
C16_OneRowPerUserAndTopic ==
    \A i, j \in DOMAIN user_topics :
        (user_topics[i].user_id = user_topics[j].user_id
         /\ user_topics[i].topic = user_topics[j].topic) => i = j

\* Every row of before is still there, with the same id, user and topic and a
\* weight that is not smaller; every row of after has a weight of at least 1.
RowsKept(before, after) ==
    /\ Len(after) >= Len(before)
    /\ \A i \in DOMAIN before :
         /\ after[i].id = before[i].id
         /\ after[i].user_id = before[i].user_id
         /\ after[i].topic = before[i].topic
         /\ after[i].weight >= before[i].weight
    /\ \A i \in DOMAIN after : after[i].weight >= 1

\* The rows of other users and of names that are not in the call are as they
\* were, and no row is created for them.
OthersUnchanged(before, after, user_id, detected_topics) ==
    \A i \in DOMAIN after :
        (after[i].user_id # user_id \/ after[i].topic \notin SeqRange(detected_topics))
        => (i \in DOMAIN before /\ after[i] = before[i])

\* The effect of the k occurrences of topic_name in one call: a row that
\* exists gains 1 per occurrence and is stamped t; when none exists, the first
\* occurrence creates the row with weight 1 and the later ones find it.
NameApplied(before, after, user_id, topic_name, k, t) ==
    LET old == TopicMatches(before, user_id, topic_name)
        new == TopicMatches(after, user_id, topic_name) \ DOMAIN before
    IN IF old # {}
       THEN /\ new = {}
            /\ \E i \in old :
                 /\ after[i].weight = before[i].weight + k
                 /\ after[i].last_mentioned = t
                 /\ \A j \in old \ {i} : after[j] = before[j]
       ELSE /\ Cardinality(new) = 1
            /\ \A i \in new : after[i].weight = k /\ after[i].last_mentioned = t

UpdateApplied(before, after, user_id, detected_topics, t) ==
    /\ OthersUnchanged(before, after, user_id, detected_topics)
    /\ \A n \in SeqRange(detected_topics) :
         NameApplied(before, after, user_id, n, Count(detected_topics, n), t)

\* C17: for each name of an update_user_topics(u, names) call, a row (u, name)
\* that exists gains exactly 1 in weight and gets last_mentioned = now, and a
\* row with weight 1 and last_mentioned = now is created when none exists;
\* across every step a row is never deleted, its weight never decreases and
\* is at least 1, and the rows of other users and other names are unchanged.
C17_UpdateIncrementsOrCreates ==
    [][/\ RowsKept(user_topics, user_topics')
       /\ (last'.op = "update_user_topics" /\ ~last'.raised)
          => UpdateApplied(user_topics, user_topics', last'.user_id,
                           last'.detected_topics, now)]_vars

(***************************************************************************)
(* Claims about the recommendations drawn from the history (checked under  *)
(* SpecHistory; the history fetched holds every conversation of the user). *)
(***************************************************************************)
\* The topics in the message_metadata column of a stored message.
StoredTopics(m) ==
    IF HasKey(messages[m].message_metadata, "topics")
    THEN SeqRange(messages[m].message_metadata["topics"]) ELSE {}

\* The stored user messages of the user's conversations that mention topic.
StoredUserMentions(user_id, topic) ==
    {m \in DOMAIN messages :
        /\ messages[m].conversation_id \in ConversationsOf(user_id)
        /\ messages[m].is_user
        /\ topic \in StoredTopics(m)}

EntriesOf(result, type, topic) ==
    {i \in DOMAIN result : result[i].type = type /\ result[i].topic = topic}

\* the result is cut at 3 entries and all of them are of this type
CapReached(result, type) ==
    Len(result) = 3 /\ \A i \in DOMAIN result : result[i].type = type

\* C18: a topic in the stored metadata of at least 3 user messages of the
\* fetched history gets a "frequent_topic" recommendation (unless the cap of 3
\* is filled by other frequent topics), and a topic mentioned in fewer than 3
\* gets none.
C18_FrequentTopicFromThreeMentions ==
    last.op = "generate_recommendations"
    => \A topic \in TopicNames :
         IF Cardinality(StoredUserMentions(last.user_id, topic)) >= 3
         THEN \/ EntriesOf(last.result, "frequent_topic", topic) # {}
              \/ CapReached(last.result, "frequent_topic")
         ELSE EntriesOf(last.result, "frequent_topic", topic) = {}

\* The stored messages of the user's conversations.
MessagesOfUser(user_id) ==
    {m \in DOMAIN messages : messages[m].conversation_id \in ConversationsOf(user_id)}

\* The message the user's conversations received last (ids grow with
\* insertion), 0 when there is none: it is the last message of the
\* conversation that most recently received a message.
NewestMessage(user_id) ==
    IF MessagesOfUser(user_id) = {} THEN 0
    ELSE CHOOSE m \in MessagesOfUser(user_id) : \A k \in MessagesOfUser(user_id) : k <= m

FollowUpDue(user_id) ==
    /\ NewestMessage(user_id) # 0
    /\ ~messages[NewestMessage(user_id)].is_user
    /\ "technology" \in StoredTopics(NewestMessage(user_id))

\* C20: generate_recommendations returns exactly one "follow_up" entry when
\* the last message of the conversation of the user that most recently
\* received a message is a generated message whose stored metadata topics
\* include "technology", and none otherwise.
C20_FollowUpAfterTechnologyReply ==
    last.op = "generate_recommendations"
    => Cardinality(EntriesOf(last.result, "follow_up", "technology"))
         = (IF FollowUpDue(last.user_id) THEN 1 ELSE 0)

(***************************************************************************)
(* Claims about the reminders (checked under SpecRecommend).               *)
(***************************************************************************)
\* now - last_mentioned is greater than 7 days and the weight greater than 5
ReminderDue(row) ==
    now - row.last_mentioned > 7 * MinutesPerDay /\ row.weight > 5

\* C19: generate_recommendations returns a "reminder" entry for a stored
\* topic of the user exactly when now - last_mentioned is greater than 7 days
\* and its weight is greater than 5 (unless the cap of 3 cuts it off); a topic
\* of weight 6 last mentioned 7 days and 1 hour ago gets one, a topic of
\* weight 5 or last mentioned exactly 7 days ago gets none.
C19_ReminderAfterSevenDays ==
    last.op = "generate_recommendations"
    => \A i \in DOMAIN user_topics :
         user_topics[i].user_id = last.user_id
         => IF ReminderDue(user_topics[i])
            THEN \/ EntriesOf(last.result, "reminder", user_topics[i].topic) # {}
                 \/ Len(last.result) = 3
            ELSE EntriesOf(last.result, "reminder", user_topics[i].topic) = {}

(***************************************************************************)
(* Further claims about should_send_recommendation (SpecProactive).        *)
(***************************************************************************)
\* The preferences of the user as stored, the empty dict for an unknown user.
StoredPreferences(us, user_id) ==
    IF \E i \in DOMAIN us : us[i].id = user_id
    THEN us[FirstOrNone({i \in DOMAIN us : us[i].id = user_id})].preferences
    ELSE EmptyDict

\* C21: should_send_recommendation returns false when the user does not
\* exist or when the preference disable_proactive is true, and whenever it
\* returns false (also when the minimum gap has not elapsed) the stored
\* users, with their preferences and last_recommendation_time, are unchanged.
C21_FalseLeavesPreferencesUnchanged ==
    [][last'.op = "should_send_recommendation"
       => /\ ((\A i \in DOMAIN users : users[i].id # last'.user_id)
               \/ Get(StoredPreferences(users, last'.user_id), "disable_proactive", FALSE))
              => ~last'.result
          /\ ~last'.result => users' = users]_vars

\* C21 witness: a call for an existing user who disabled the recommendations
\* returned false.
C21_Witness ==
    /\ last.op = "should_send_recommendation"
    /\ last.known
    /\ last.disabled
    /\ ~last.result

\* C22: whenever should_send_recommendation returns true, the stored
\* preferences of the user hold last_recommendation_time = now (so that no
\* further recommendation can be surfaced until the gap has elapsed, whether
\* or not the caller sent one).
C22_TrueStampsLastRecommendationTime ==
    (last.op = "should_send_recommendation" /\ last.result)
    => /\ HasKey(StoredPreferences(users, last.user_id), "last_recommendation_time")
       /\ fromisoformat(StoredPreferences(users, last.user_id)["last_recommendation_time"]) = now

(***************************************************************************)
(* Claims about the history part of the prompt (SpecContext).              *)
(***************************************************************************)
\* The history clause of a prompt: the part after the label, <<>> when the
\* prompt has no such clause.
HistoryClause(context) ==
    IF \E k \in DOMAIN context : context[k] = "Here's the recent conversation history: "
    THEN context[(CHOOSE k \in DOMAIN context :
                    context[k] = "Here's the recent conversation history: ") + 1]
    ELSE <<>>

\* C23: with max_history_items = N, the history part of the prompt holds
\* min(N, number of stored messages of the conversation) messages, the N most
\* recent by creation timestamp, in ascending order, as "User" / "Assistant"
\* lines; a conversation id that does not exist gives an empty history.
C23_HistoryIsLastNMessages ==
    last.op = "get_conversation_history"
    => LET stored == MessagesOf(last.conversation_id)
           lines == HistoryClause(last.context)
       IN /\ Len(lines) = Min2(last.max_history_items, Cardinality(stored))
          /\ Len(lines) = Len(last.history)
          /\ \A k \in DOMAIN lines :
               /\ lines[k].content = last.history[k].content
               /\ lines[k].role = (IF last.history[k].is_user THEN "User" ELSE "Assistant")
          /\ \A j, k \in DOMAIN last.history :
               j < k => last.history[j].timestamp <= last.history[k].timestamp
          /\ \E kept \in SUBSET stored :
               /\ Cardinality(kept) = Len(last.history)
               /\ \A m \in stored \ kept, k \in kept :
                    messages[m].created_at <= messages[k].created_at
               /\ \E f \in [DOMAIN last.history -> kept] :
                    /\ \A j, k \in DOMAIN last.history : j # k => f[j] # f[k]
                    /\ \A k \in DOMAIN last.history :
                         /\ messages[f[k]].content = last.history[k].content
                         /\ messages[f[k]].is_user = last.history[k].is_user
                         /\ messages[f[k]].created_at = last.history[k].timestamp
          /\ last.conversation_id \notin DOMAIN conversations => lines = <<>>

(***************************************************************************)
(* AIEngine.process_input, step by step.                                   *)
(***************************************************************************)
\* seq up to and including the first occurrence of x
RECURSIVE UpTo(_, _)
UpTo(seq, x) ==
    IF seq = <<>> THEN <<>>
    ELSE IF Head(seq) = x THEN <<x>>
    ELSE <<Head(seq)>> \o UpTo(Tail(seq), x)

\* What a run of process_input does, in the order of the statements of the
\* method: the calls it makes up to the one that raises (or the return), what
\* _get_conversation_history read, the topics get_user_topics gave the context
\* builder, and the table update_user_topics left.
process_input_run(us, convs, msgs, rows, user_id, conversation_id, message, t, choice) ==
    LET message_metadata == analyze_message(message)
        topics_update ==
            IF message_metadata.topics # <<>>
            THEN update_user_topics(us, rows, user_id, message_metadata.topics, t, choice.first)
            ELSE [error |-> "", raised |-> FALSE, user_topics |-> rows]
        built == build_context(us, convs, msgs, topics_update.user_topics, user_id,
                               conversation_id, message, choice)
        send == should_send_recommendation(us, user_id, t)
        with_user == add_user_message(convs, msgs, user_id, conversation_id, message,
                                      message_metadata, t)
        with_bot == add_bot_message(convs, with_user.messages, conversation_id, "", EmptyDict, t)
        statements ==
            <<"analyze_message">>
            \o (IF message_metadata.topics # <<>> THEN <<"update_user_topics">> ELSE <<>>)
            \o <<"build_context", "generate_response", "should_send_recommendation">>
            \o (IF send.result THEN <<"generate_recommendations">> ELSE <<>>)
            \o <<"add_user_message", "add_bot_message", "return">>
        ends_at ==
            IF topics_update.raised THEN "update_user_topics"
            ELSE IF built.raised THEN "build_context"
            ELSE IF with_user.raised THEN "add_user_message"
            ELSE IF with_bot.raised THEN "add_bot_message"
            ELSE "return"
        steps == UpTo(statements, ends_at)
        reached(step) == step \in SeqRange(steps)
    IN [context |-> built.context,
        context_built |-> (reached("build_context") /\ ~built.raised),
        context_topics |-> IF reached("build_context")
                           THEN get_user_topics(topics_update.user_topics, choice.context_order, 20)
                           ELSE <<>>,
        history_read |-> IF reached("build_context")
                         THEN get_conversation_history(convs, msgs, conversation_id,
                                                       choice.msg_order, max_history_items)
                         ELSE <<>>,
        steps |-> steps,
        topics |-> message_metadata.topics,
        topics_updated |-> IF reached("update_user_topics") /\ ~topics_update.raised
                           THEN topics_update.user_topics ELSE rows]

\* Who says what, and whether the provider answers: user 1 with and without
\* a keyword, user 2 without.
EngineInputs ==
    {[message |-> <<"hello">>, provider |-> "ok", user_id |-> 1],
     [message |-> <<"Technology", "news">>, provider |-> "ok", user_id |-> 1],
     [message |-> <<"Technology", "news">>, provider |-> "fails", user_id |-> 1],
     [message |-> <<"hello">>, provider |-> "ok", user_id |-> 2]}

ProcessInput(user_id, conversation_id, message, provider) ==
    \E first \in FirstChoices(user_topics, user_id, extract_topics(message)) :
    \E context_order \in TopicOrders(TopicsAfter([message |-> message, user_id |-> user_id], first), user_id),
       conv_order \in ConversationOrders(conversations, user_id),
       msg_order \in MessageOrders(messages) :
        \E choice \in {[context_order |-> context_order, conv_order |-> conv_order,
                        first |-> first, msg_order |-> msg_order, order |-> context_order,
                        provider |-> provider]} :
        \E r \in {process_input(users, conversations, messages, user_topics, user_id,
                                conversation_id, message, now, choice)},
           run \in {process_input_run(users, conversations, messages, user_topics, user_id,
                                      conversation_id, message, now, choice)} :
            /\ Len(r.messages) <= MaxMessages
            /\ WithinTopicBounds(r.user_topics)
            /\ users' = r.users
            /\ messages' = r.messages
            /\ user_topics' = r.user_topics
            /\ last' = [conversation_id |-> conversation_id,
                        message |-> message,
                        messages_before |-> Len(messages),
                        op |-> "process_input",
                        raised |-> r.raised,
                        run |-> run,
                        user_id |-> user_id]
            /\ UNCHANGED <<conversations, now, client, sent_at, sessions>>

InitEngine ==
    /\ users = SeedActiveUsers
    /\ conversations = <<>>
    /\ messages = <<>>
    /\ user_topics = <<>>
    /\ now = 0
    /\ client = NoLogin
    /\ sent_at = NeverSent
    /\ sessions = NoSessions
    /\ last = [op |-> "init"]

NextEngine ==
    \/ Tick(1..MaxTopicTime)
    \/ /\ Len(conversations) < MaxHistoryConversations
       /\ \A c \in DOMAIN conversations : conversations[c].updated_at < now
       /\ \E u \in UserIds : CreateConversation(u)
    \/ /\ Len(messages) < MaxMessages
       /\ \A m \in DOMAIN messages : messages[m].created_at < now
       /\ \E c \in DOMAIN conversations :
            AddUserMessage(conversations[c].user_id, c, <<"hello">>, EmptyDict)
    \/ \E in \in EngineInputs, c \in 1..MaxHistoryConversations :
         ProcessInput(in.user_id, c, in.message, in.provider)

SpecEngine == InitEngine /\ [][NextEngine]_vars

(***************************************************************************)
(* Claims about process_input (checked under SpecEngine).  A run is        *)
(* well-formed when its user exists and its conversation exists.           *)
(***************************************************************************)
WellFormedRun ==
    /\ last.op = "process_input"
    /\ \E i \in DOMAIN users : users[i].id = last.user_id
    /\ last.conversation_id \in DOMAIN conversations

\* The steps of a complete run, without the optional ones.
Without(seq, x) == Filter(seq, SeqRange(seq) \ {x})

CompleteRun ==
    <<"analyze_message", "build_context", "generate_response", "should_send_recommendation",
      "add_user_message", "add_bot_message", "return">>

\* C24: every process_input run performs analyze, update topics, build
\* context, generate response, check recommendation, persist user message,
\* persist generated message, return, in this order: the topics the context
\* builder sees include the topics of the current message, the provider is
\* called exactly once, and no message is persisted before the recommendation
\* check.
C24_StepsInFixedOrder ==
    WellFormedRun
    => /\ Without(Without(last.run.steps, "update_user_topics"), "generate_recommendations")
            = CompleteRun
       /\ last.run.topics # <<>>
            => /\ Len(last.run.steps) >= 2
               /\ last.run.steps[2] = "update_user_topics"
       /\ \A topic \in SeqRange(last.run.topics) :
            \E k \in DOMAIN last.run.context_topics : last.run.context_topics[k].topic = topic
       /\ Count(last.run.steps, "generate_response") = 1

\* The step at which the run ended.
EndedAt(steps) == steps[Len(steps)]

\* The messages the steps of the run that did not fail have added.
MessagesAdded(steps) ==
    Count(steps, "add_user_message") + Count(steps, "add_bot_message")
      - (IF EndedAt(steps) \in {"add_user_message", "add_bot_message"} THEN 1 ELSE 0)

Ending(context, n) == SubSeq(context, Len(context) - n + 1, Len(context))

\* C29: the context built for a message renders as history only messages
\* that were stored before the process_input call started, and the message
\* being processed appears in it only as the final "User: <current message>"
\* cue, followed by "Assistant: ".
C29_ContextHistoryPredatesTheCall ==
    WellFormedRun
    => /\ last.run.context_built
       /\ Len(last.run.context) >= 3
       /\ Ending(last.run.context, 3) = <<"\nUser: ", last.message, "\nAssistant: ">>
       /\ HistoryClause(last.run.context) = HistoryLines(last.run.history_read)
       /\ \E f \in [DOMAIN last.run.history_read -> 1..last.messages_before] :
            /\ \A j, k \in DOMAIN last.run.history_read : j # k => f[j] # f[k]
            /\ \A k \in DOMAIN last.run.history_read :
                 /\ messages[f[k]].conversation_id = last.conversation_id
                 /\ messages[f[k]].content = last.run.history_read[k].content
                 /\ messages[f[k]].created_at = last.run.history_read[k].timestamp

\* The conversation the run names exists and belongs to the user of the run.
OwnConversation ==
    /\ last.conversation_id \in DOMAIN conversations
    /\ conversations[last.conversation_id].user_id = last.user_id

\* C30: every message a chat request of user u persists goes to a
\* conversation that exists and is owned by u, and the history read for u's
\* context comes only from a conversation owned by u: a request that names a
\* conversation of another user, or no conversation, adds no message to it
\* and reads none of its messages.
C30_OnlyOwnConversationReadAndWritten ==
    last.op = "process_input"
    => /\ \A m \in DOMAIN messages :
            m > last.messages_before
            => /\ messages[m].conversation_id \in DOMAIN conversations
               /\ conversations[messages[m].conversation_id].user_id = last.user_id
       /\ ~OwnConversation
            => /\ last.run.history_read = <<>>
               /\ Len(messages) = last.messages_before

(***************************************************************************)
(* GET /recommendations for a user with stored preferences.                *)
(***************************************************************************)
InitFetch ==
    /\ users = SeedActiveUsers
    /\ conversations = <<>>
    /\ messages = <<>>
    /\ user_topics \in {rows \in SeedTopicTables : Len(rows) <= 1}
    /\ now \in RecommendTimes
    /\ client = NoLogin
    /\ sent_at = NeverSent
    /\ sessions = NoSessions
    /\ last = [op |-> "init"]

NextFetch ==
    \/ Len(conversations) < MaxConversations /\ CreateConversation(1)
    \/ /\ Len(messages) < MaxMessages
       /\ \E c \in DOMAIN conversations :
            AddBotMessage(c, "a reply about technology", TopicMetadata)
    \/ \E p \in PreferencePatches(now) : UpdateUserPreferences(1, p)
    \/ \E u \in UserIds : GetRecommendations(u)

SpecFetch == InitFetch /\ [][NextFetch]_vars

(***************************************************************************)
(* Claims about fetching recommendations (checked under SpecFetch).        *)
(***************************************************************************)
\* C28: generate_recommendations, and with it GET /recommendations, changes
\* no stored state: users (with their preferences and
\* last_recommendation_time), conversations, messages and topic rows are the
\* same after the call as before.
C28_RecommendationsChangeNothing ==
    [][last'.op = "get_recommendations"
       => /\ users' = users
          /\ conversations' = conversations
          /\ messages' = messages
          /\ user_topics' = user_topics]_vars

\* C28 witness: GET /recommendations answered with a list that is not empty
\* for a user whose preferences hold a last_recommendation_time.
C28_Witness ==
    /\ last.op = "get_recommendations"
    /\ last.status = HTTP_200_OK
    /\ last.body.recommendations # <<>>
    /\ HasKey(StoredPreferences(users, last.user_id), "last_recommendation_time")

(***************************************************************************)
(* Concurrent requests.  Each request has a database session of its own    *)
(* (get_db); a handler runs in a worker thread, so the query of one        *)
(* request and the commit of another can come in any order.  The database   *)
(* is PostgreSQL at its default isolation level: a query sees what is       *)
(* committed, and a commit writes the values the session computed.          *)
(***************************************************************************)
MaxRequests == 3

\* The committed sessions of one kind for one user (and topic name).
CommittedOn(ss, kind, user_id, topic_name) ==
    {r \in DOMAIN ss :
        /\ ss[r].pc = "committed"
        /\ ss[r].kind = kind
        /\ ss[r].user_id = user_id
        /\ ss[r].topic = topic_name}

\* The row object the query of update_user_topics loads: .first() of the
\* matching rows, None (id 0) when there is none.
topic_query(rows, first) ==
    IF first = 0 THEN [id |-> 0, weight |-> 0]
    ELSE [id |-> rows[first].id, weight |-> rows[first].weight]

\* A variant of the commit that increments in the database
\* (SET weight = weight + 1) and looks the row up again before inserting.
topic_commit_Atomic(rows, loaded, user_id, topic_name, stamp) ==
    LET found == IF loaded.id # 0 THEN loaded.id
                 ELSE FirstOrNone(TopicMatches(rows, user_id, topic_name))
    IN IF found # 0
       THEN [rows EXCEPT ![found].weight = @ + 1, ![found].last_mentioned = stamp]
       ELSE Append(rows, [id |-> Len(rows) + 1, last_mentioned |-> stamp,
                          topic |-> topic_name, user_id |-> user_id, weight |-> 1])

\* The commit of update_user_topics for one name: topic.weight += 1 was
\* computed on the loaded object, so the UPDATE sets the weight to the loaded
\* weight plus 1; a name that had no row when queried is inserted.
topic_commit(rows, loaded, user_id, topic_name, stamp) ==
    IF loaded.id # 0
    THEN [rows EXCEPT ![loaded.id].weight = loaded.weight + 1,
                      ![loaded.id].last_mentioned = stamp]
    ELSE Append(rows, [id |-> Len(rows) + 1, last_mentioned |-> stamp,
                       topic |-> topic_name, user_id |-> user_id, weight |-> 1])

\* should_send_recommendation in a session that loaded the preferences
\* earlier: [result, users].  The decision is taken on the loaded dict; the
\* UPDATE, if the unit of work emits one, writes the preferences of the user.
session_should_send(us, preferences, user_id, t) ==
    LET user == FirstOrNone({i \in DOMAIN us : us[i].id = user_id}) IN
    IF user = 0 THEN [result |-> FALSE, users |-> us]
    ELSE LET snapshot == [us EXCEPT ![user].preferences = preferences]
             r == should_send_recommendation(snapshot, user_id, t)
         IN [result |-> r.result,
             users |-> IF r.users = snapshot THEN us
                       ELSE [us EXCEPT ![user].preferences = r.users[user].preferences]]

\* update_user_topics(user_id, [topic_name]) up to its query.
BeginUpdateTopics(user_id, topic_name) ==
    /\ Len(sessions) < MaxRequests
    /\ \E first \in FirstChoices(user_topics, user_id, <<topic_name>>) :
         sessions' = Append(sessions,
                            [at |-> 0, kind |-> "update_user_topics",
                             loaded |-> topic_query(user_topics, first[topic_name]),
                             pc |-> "loaded", preferences |-> EmptyDict, result |-> FALSE,
                             seen |-> Cardinality(CommittedOn(sessions, "update_user_topics",
                                                              user_id, topic_name)),
                             stale |-> FALSE, stamp |-> now, topic |-> topic_name,
                             user_id |-> user_id])
    /\ last' = [op |-> "update_user_topics_query", request |-> Len(sessions) + 1]
    /\ UNCHANGED <<users, conversations, messages, user_topics, now, client, sent_at>>

\* update_user_topics from the query to the end: the commit.
CommitUpdateTopics(r) ==
    /\ r \in DOMAIN sessions
    /\ sessions[r].kind = "update_user_topics"
    /\ sessions[r].pc = "loaded"
    /\ user_topics' = topic_commit(user_topics, sessions[r].loaded, sessions[r].user_id,
                                   sessions[r].topic, sessions[r].stamp)
    /\ WithinTopicBounds(user_topics')
    /\ sessions' = [sessions EXCEPT
                      ![r].pc = "committed",
                      ![r].at = now,
                      ![r].stale = Cardinality(CommittedOn(sessions, "update_user_topics",
                                                           sessions[r].user_id, sessions[r].topic))
                                     > sessions[r].seen]
    /\ last' = [op |-> "update_user_topics_commit", request |-> r]
    /\ UNCHANGED <<users, conversations, messages, now, client, sent_at>>

\* should_send_recommendation(user_id) up to its query.
BeginShouldSend(user_id) ==
    /\ Len(sessions) < MaxRequests
    /\ sessions' = Append(sessions,
                          [at |-> 0, kind |-> "should_send_recommendation",
                           loaded |-> [id |-> 0, weight |-> 0],
                           pc |-> "loaded",
                           preferences |-> StoredPreferences(users, user_id),
                           result |-> FALSE,
                           seen |-> Cardinality(CommittedOn(sessions, "should_send_recommendation",
                                                            user_id, "")),
                           stale |-> FALSE, stamp |-> now, topic |-> "",
                           user_id |-> user_id])
    /\ last' = [op |-> "should_send_recommendation_query", request |-> Len(sessions) + 1]
    /\ UNCHANGED <<users, conversations, messages, user_topics, now, client, sent_at>>

\* should_send_recommendation from the query to the end.
CommitShouldSend(r) ==
    /\ r \in DOMAIN sessions
    /\ sessions[r].kind = "should_send_recommendation"
    /\ sessions[r].pc = "loaded"
    /\ \E s \in {session_should_send(users, sessions[r].preferences, sessions[r].user_id, now)} :
         /\ users' = s.users
         /\ sessions' = [sessions EXCEPT
                           ![r].pc = "committed",
                           ![r].at = now,
                           ![r].result = s.result,
                           ![r].stale = Cardinality(CommittedOn(sessions, "should_send_recommendation",
                                                                sessions[r].user_id, ""))
                                          > sessions[r].seen]
    /\ last' = [op |-> "should_send_recommendation_commit", request |-> r]
    /\ UNCHANGED <<conversations, messages, user_topics, now, client, sent_at>>

InitRace ==
    /\ users = SeedActiveUsers
    /\ conversations = <<>>
    /\ messages = <<>>
    /\ user_topics = <<>>
    /\ now = 0
    /\ client = NoLogin
    /\ sent_at = NeverSent
    /\ sessions = NoSessions
    /\ last = [op |-> "init"]

NextRace ==
    \/ Tick(1..MaxTopicTime)
    \/ \E n \in TopicNames : BeginUpdateTopics(1, n)
    \/ \E r \in 1..MaxRequests : CommitUpdateTopics(r)
    \/ BeginShouldSend(1)
    \/ \E r \in 1..MaxRequests : CommitShouldSend(r)

SpecRace == InitRace /\ [][NextRace]_vars

(***************************************************************************)
(* Claims about concurrent requests (checked under SpecRace).              *)
(***************************************************************************)
RECURSIVE SumWeights(_, _)
SumWeights(rows, ids) ==
    IF ids = {} THEN 0
    ELSE LET i == SetMin(ids) IN rows[i].weight + SumWeights(rows, ids \ {i})

\* The mentions of the topic that have been processed to the end, and the
\* weight the rows of the topic hold.
MentionsProcessed(user_id, topic_name) ==
    Cardinality(CommittedOn(sessions, "update_user_topics", user_id, topic_name))

WeightStored(user_id, topic_name) ==
    SumWeights(user_topics, TopicMatches(user_topics, user_id, topic_name))

\* Some request on the topic committed after another one had committed
\* between its query and its commit.
Interleaved(kind, user_id, topic_name) ==
    \E r \in CommittedOn(sessions, kind, user_id, topic_name) : sessions[r].stale

\* C26: requests that mention the same topic for the same user and interleave
\* the query and the commit of update_user_topics lose an update: the weight
\* stored is then less than the number of mentions processed, or two rows
\* exist for the topic; requests that do not interleave lose nothing, and the
\* weight never exceeds the mentions.
C26_InterleavedUpdatesAreLost ==
    \A n \in TopicNames :
        /\ WeightStored(1, n) <= MentionsProcessed(1, n)
        /\ IF Interleaved("update_user_topics", 1, n)
           THEN \/ WeightStored(1, n) < MentionsProcessed(1, n)
                \/ Cardinality(TopicMatches(user_topics, 1, n)) > 1
           ELSE /\ WeightStored(1, n) = MentionsProcessed(1, n)
                /\ Cardinality(TopicMatches(user_topics, 1, n)) <= 1

\* C26 witness: a topic stored by a first mention was then mentioned by two
\* requests that interleaved, and its weight grew by one only: three mentions
\* processed, one row, weight 2.
C26_Witness ==
    \E n \in TopicNames :
        /\ Cardinality(TopicMatches(user_topics, 1, n)) = 1
        /\ Interleaved("update_user_topics", 1, n)
        /\ MentionsProcessed(1, n) = 3
        /\ WeightStored(1, n) = 2

\* The minutes between the commits of two requests.
MinutesApart(r1, r2) ==
    IF sessions[r1].at >= sessions[r2].at
    THEN sessions[r1].at - sessions[r2].at
    ELSE sessions[r2].at - sessions[r1].at

\* C27: the one-recommendation-per-gap limit holds when the calls for a user
\* do not interleave: two calls of should_send_recommendation for the same
\* user that both return true within one minimum gap have interleaved, one
\* of them having read the preferences before the other wrote.
C27_TwoTruesOnlyWhenInterleaved ==
    \A r1, r2 \in CommittedOn(sessions, "should_send_recommendation", 1, "") :
        ( /\ r1 # r2
          /\ sessions[r1].result
          /\ sessions[r2].result
          /\ MinutesApart(r1, r2) < 60 * GapHours(Get(StoredPreferences(users, 1),
                                                  "recommendation_frequency", "medium")) )
        => (sessions[r1].stale \/ sessions[r2].stale)

====
